---- MODULE Spec2Model ----
(***************************************************************************)
(* A model of github-star-manager: the JSON-backed repository store        *)
(* (src/src/data_manager.py), the star fetcher (src/src/fetch_stars.py),   *)
(* and the two classifiers (src/src/classify.py, src/src/ai_processor.py). *)
(*                                                                         *)
(* Text is modelled as a sequence of one-character strings.  A character   *)
(* outside ASCII is written as the token "uXXXX" of its code point, so     *)
(* that substring tests and lower-casing act on characters as they do in   *)
(* the program.                                                            *)
(***************************************************************************)
EXTENDS Integers, Sequences, FiniteSets, TLC

VARIABLES
  existing_repos,   \* merge_repositories: its first argument
  new_repos,        \* merge_repositories: its second argument
  merged_repos,     \* [done, repos]: what merge_repositories returned
  data_file,        \* the store file on disk: [st, data]
  backup_file,      \* the backup file on disk: [st, data]
  auto_backup,      \* DataManager.auto_backup
  writable,         \* whether open(data_file, 'w') succeeds
  lastOp,           \* the last store operation and what it gave its caller
  workers,          \* classification workers: each one's position and locals
  program,          \* which program runs: update_stars.py or classify.py
  api_key,          \* AIProcessor.api_key is set
  max_retries,      \* config["ai"]["max_retries"]
  cache,            \* AIProcessor.cache
  cache_hits,       \* AIProcessor.cache_hits
  cache_misses,     \* AIProcessor.cache_misses
  cache_origin,     \* history: per cache key, the path of the call that stored it
  lastCall,         \* the last classifier call and what it gave its caller
  args,             \* the arguments and surroundings of one function call
  outcome           \* what that call did and returned

mergeVars == <<existing_repos, new_repos, merged_repos>>
storeVars == <<data_file, backup_file, auto_backup, writable, lastOp>>
workerVars == <<workers>>
aiVars == <<program, api_key, max_retries, cache, cache_hits, cache_misses, cache_origin, lastCall>>
callVars == <<args, outcome>>
vars == <<mergeVars, storeVars, workerVars, aiVars, callVars>>

----------------------------------------------------------------------------
(* Bounds of the model. *)

\* the longest existing list given to merge_repositories
MaxExisting == 2
\* the longest incoming list given to merge_repositories
MaxIncoming == 2

----------------------------------------------------------------------------
(* Values. *)

\* Python's None, where a text is expected
None == <<"<None>">>

\* a key that a dict does not hold
Absent == <<"<absent>">>

\* dict.get(key, default)
Get(v, default) == IF v = Absent THEN default ELSE v

Range(s) == {s[i] : i \in DOMAIN s}

Max(S) == CHOOSE x \in S : \A y \in S : y <= x

SeqsUpTo(S, n) == UNION {[1..k -> S] : k \in 0..n}

DistinctIds(repos) ==
  \A i, j \in DOMAIN repos : i # j => repos[i].id # repos[j].id

----------------------------------------------------------------------------
(* src/src/config.py: the configured categories.                           *)
\*  1 前端开发   2 后端开发   3 全栈开发   4 移动应用开发   5 人工智能/机器学习
\*  6 数据科学/分析   7 DevOps/基础设施   8 安全工具   9 开发工具   10 学习资源
\*  11 区块链/Web3   12 游戏开发   13 物联网   14 其他
CONFIG_categories ==
  << <<"u524d", "u7aef", "u5f00", "u53d1">>,
     <<"u540e", "u7aef", "u5f00", "u53d1">>,
     <<"u5168", "u6808", "u5f00", "u53d1">>,
     <<"u79fb", "u52a8", "u5e94", "u7528", "u5f00", "u53d1">>,
     <<"u4eba", "u5de5", "u667a", "u80fd", "/", "u673a", "u5668", "u5b66", "u4e60">>,
     <<"u6570", "u636e", "u79d1", "u5b66", "/", "u5206", "u6790">>,
     <<"D", "e", "v", "O", "p", "s", "/", "u57fa", "u7840", "u8bbe", "u65bd">>,
     <<"u5b89", "u5168", "u5de5", "u5177">>,
     <<"u5f00", "u53d1", "u5de5", "u5177">>,
     <<"u5b66", "u4e60", "u8d44", "u6e90">>,
     <<"u533a", "u5757", "u94fe", "/", "W", "e", "b", "3">>,
     <<"u6e38", "u620f", "u5f00", "u53d1">>,
     <<"u7269", "u8054", "u7f51">>,
     <<"u5176", "u4ed6">> >>

\* 其他, the default category
CatOther == <<"u5176", "u4ed6">>
\* 开发工具
CatDevTools == <<"u5f00", "u53d1", "u5de5", "u5177">>
\* 前端开发
CatFrontend == <<"u524d", "u7aef", "u5f00", "u53d1">>

----------------------------------------------------------------------------
(* Repository records.  stargazers_count stands for the descriptive fields *)
(* a fetch refreshes; is_classified, category, summary and key_features    *)
(* are the classification fields.                                          *)

Record(id, stars, cls) ==
  [id |-> id, stargazers_count |-> stars,
   is_classified |-> cls.is_classified, category |-> cls.category,
   summary |-> cls.summary, key_features |-> cls.key_features]

ClassificationOf(repo) ==
  [is_classified |-> repo.is_classified, category |-> repo.category,
   summary |-> repo.summary, key_features |-> repo.key_features]

\* the classification fields of a record that was never classified
Unclassified ==
  [is_classified |-> FALSE, category |-> None, summary |-> "None",
   key_features |-> <<>>]

\* fetch_stars.py: the record made from one raw API payload
_process_repo_data(repo) ==
  [id |-> repo.id, stargazers_count |-> repo.stargazers_count,
   is_classified |-> FALSE, category |-> None, summary |-> "None",
   key_features |-> <<>>]

----------------------------------------------------------------------------
(* src/src/data_manager.py: merge_repositories. *)

\* existing_ids = {repo['id']: i for i, repo in enumerate(existing_repos)}:
\* a later entry with the same id replaces an earlier one
existing_ids_of(existing) ==
  [id \in {existing[i].id : i \in DOMAIN existing} |->
     Max({i \in DOMAIN existing : existing[i].id = id})]

\* {**new_repo, **classification_fields}
merge_entry_drop_classification(existing_repo, new_repo) == new_repo

merge_entry(existing_repo, new_repo) ==
  [new_repo EXCEPT !.is_classified = existing_repo.is_classified,
                   !.category = existing_repo.category,
                   !.summary = existing_repo.summary,
                   !.key_features = existing_repo.key_features]

\* the loop over new_repos, from its k-th element on
RECURSIVE merge_loop(_, _, _, _)
merge_loop(existing_ids, merged, new, k) ==
  IF k > Len(new) THEN merged
  ELSE LET new_repo == new[k]
           repo_id == new_repo.id
       IN IF repo_id \in DOMAIN existing_ids
          THEN LET existing_index == existing_ids[repo_id]
                   existing_repo == merged[existing_index]
               IN merge_loop(existing_ids,
                             [merged EXCEPT ![existing_index] =
                                merge_entry(existing_repo, new_repo)],
                             new, k + 1)
          ELSE merge_loop(existing_ids, Append(merged, new_repo), new, k + 1)

merge_repositories(existing, new) ==
  merge_loop(existing_ids_of(existing), existing, new, 1)

----------------------------------------------------------------------------
(* src/src/data_manager.py: the store file, load_data and save_data.       *)
(*                                                                         *)
(* A file is [st, data]: st is "missing", "ok" (holds the JSON of data),   *)
(* "corrupt" (exists, is not JSON) or "unreadable" (exists, open() for     *)
(* reading raises an OSError such as PermissionError).  In metadata a      *)
(* count of -1 stands for a key the dict does not hold.                    *)

_create_empty_data_structure ==
  [metadata |-> [total_count |-> 0, classified_count |-> 0, unclassified_count |-> 0],
   repositories |-> <<>>]

File(st, data) == [st |-> st, data |-> data]

\* a file that holds no store
NoFile(st) == File(st, _create_empty_data_structure)

Returned(data) == [ret |-> "store", data |-> data]

\* an exception that reaches the caller
Raised == [ret |-> "raised", data |-> _create_empty_data_structure]

\* except (json.JSONDecodeError, FileNotFoundError): nothing else is caught
_restore_from_backup(bf) ==
  CASE bf.st = "ok" -> Returned(bf.data)
    [] bf.st = "corrupt" -> Returned(_create_empty_data_structure)
    [] bf.st = "missing" -> Returned(_create_empty_data_structure)
    [] bf.st = "unreadable" -> Raised

load_data(df, bf) ==
  CASE df.st = "missing" -> Returned(_create_empty_data_structure)
    [] df.st = "ok" -> Returned(df.data)
    [] df.st = "corrupt" -> _restore_from_backup(bf)
    [] df.st = "unreadable" -> Raised

CountClassified(repos) == Cardinality({i \in DOMAIN repos : repos[i].is_classified})

\* a metadata update that trusts the counts it was given
_update_metadata_keep(data) == data

_update_metadata(data) ==
  LET repos == data.repositories
      total_count == Len(repos)
      classified_count == CountClassified(repos)
      unclassified_count == total_count - classified_count
  IN [data EXCEPT !.metadata =
        [total_count |-> total_count, classified_count |-> classified_count,
         unclassified_count |-> unclassified_count]]

\* shutil.copy2(data_file, backup_file) inside try/except: the bytes of the data
\* file, whatever they are; a failed copy leaves the backup as it was
_create_backup(df, bf, w) ==
  IF df.st \in {"ok", "corrupt"} /\ w THEN df ELSE bf

\* save_data: [ret, data, data_file, backup_file]; data is the caller's dict after
\* the call (its metadata is updated in place before the write is tried)
save_data(data, df, bf, ab, w) ==
  LET bf2 == IF ab /\ df.st # "missing" THEN _create_backup(df, bf, w) ELSE bf
      data2 == _update_metadata(data)
  IN IF w THEN [ret |-> "True", data |-> data2, data_file |-> File("ok", data2),
                backup_file |-> bf2]
     ELSE [ret |-> "False", data |-> data2, data_file |-> df, backup_file |-> bf2]

\* the first record with this id, 0 when there is none
IndexOfId(repos, repo_id) ==
  IF \E i \in DOMAIN repos : repos[i].id = repo_id
  THEN CHOOSE i \in DOMAIN repos :
         /\ repos[i].id = repo_id
         /\ \A j \in DOMAIN repos : repos[j].id = repo_id => i <= j
  ELSE 0

\* repo.update({...}): classification.get('category'), .get('summary'),
\* .get('key_features', [])
apply_classification(repo, classification) ==
  [repo EXCEPT !.is_classified = TRUE,
               !.category = Get(classification.category, None),
               !.summary = IF classification.summary = "<absent>" THEN "None"
                           ELSE classification.summary,
               !.key_features = IF classification.key_features = <<"<absent>">>
                                THEN <<>> ELSE classification.key_features]

\* update_repository_classification with data=None:
\* [ret, saved, data, data_file, backup_file]
update_repository_classification(repo_id, classification, df, bf, ab, w) ==
  LET L == load_data(df, bf)
      data == L.data
      i == IndexOfId(data.repositories, repo_id)
  IN IF L.ret = "raised"
     THEN [ret |-> "raised", saved |-> "n/a", data |-> data, data_file |-> df,
           backup_file |-> bf]
     ELSE IF i = 0
     THEN [ret |-> "False", saved |-> "n/a", data |-> data, data_file |-> df,
           backup_file |-> bf]
     ELSE LET data2 == [data EXCEPT !.repositories[i] =
                          apply_classification(data.repositories[i], classification)]
              S == save_data(data2, df, bf, ab, w)
          \* self.save_data(data) ... return True: the value of save_data is dropped
          IN [ret |-> "True", saved |-> S.ret, data |-> S.data,
              data_file |-> S.data_file, backup_file |-> S.backup_file]

\* fetch_stars.py save_repos_data: the whole file is replaced by the fetched
\* list; its metadata holds total_count and no classification counts
save_repos_data(repos) ==
  File("ok", [metadata |-> [total_count |-> Len(repos), classified_count |-> -1,
                            unclassified_count |-> -1],
              repositories |-> repos])

----------------------------------------------------------------------------
(* src/src/classify.py: call_ai_api, parse_ai_response, process_repo.      *)
(*                                                                         *)
(* A reply text is a sequence of tokens: "prose" (words without braces or  *)
(* backticks), "nl" (white space), "fence_json" (```json), "fence" (```),  *)
(* "lbrace", "rbrace", "scalar" (a JSON value that is no object) and the   *)
(* members of a JSON object, named by their key in Members.                *)

\* the members a reply's object may hold
Members ==
  [valid |-> [category |-> CatDevTools, summary |-> "A CLI tool for X",
              key_features |-> <<"fast", "simple">>],
   outside |-> [category |-> <<"u91cf", "u5b50">>, summary |-> "quantum",
                key_features |-> <<"new">>],
   nocat |-> [category |-> Absent, summary |-> "no category key",
              key_features |-> <<"<absent>">>],
   nullcat |-> [category |-> None, summary |-> "<absent>",
                key_features |-> <<"x">>]]

EmptyObject ==
  [category |-> Absent, summary |-> "<absent>", key_features |-> <<"<absent>">>]

Parsed(kind, obj) == [ok |-> TRUE, kind |-> kind, obj |-> obj]

ParseError == [ok |-> FALSE, kind |-> "error", obj |-> EmptyObject]

StripWs(text) == SelectSeq(text, LAMBDA t : t # "nl")

\* json.loads
json_loads(text) ==
  LET s == StripWs(text)
  IN CASE Len(s) = 3 /\ s[1] = "lbrace" /\ s[2] \in DOMAIN Members /\ s[3] = "rbrace"
            -> Parsed("object", Members[s[2]])
       [] Len(s) = 2 /\ s[1] = "lbrace" /\ s[2] = "rbrace"
            -> Parsed("object", EmptyObject)
       [] Len(s) = 1 /\ s[1] = "scalar" -> Parsed("scalar", EmptyObject)
       [] OTHER -> ParseError

\* str.find and str.rfind of one token, 0 when it does not occur
Find(text, toks) ==
  IF \E i \in DOMAIN text : text[i] \in toks
  THEN CHOOSE i \in DOMAIN text :
         text[i] \in toks /\ \A j \in DOMAIN text : text[j] \in toks => i <= j
  ELSE 0

RFind(text, toks) ==
  IF \E i \in DOMAIN text : text[i] \in toks
  THEN CHOOSE i \in DOMAIN text :
         text[i] \in toks /\ \A j \in DOMAIN text : text[j] \in toks => j <= i
  ELSE 0

\* the text "```json" begins with "```"
IsFence == {"fence", "fence_json"}

DefaultResult ==
  [category |-> CatOther, summary |-> "cannot generate a summary",
   key_features |-> <<"cannot recognise features">>]

\* parse_ai_response: the parsed value, or the default result
parse_ai_response(response) ==
  LET whole == json_loads(response)
      fj == Find(response, {"fence_json"})
      rest == IF fj = 0 THEN <<>> ELSE SubSeq(response, fj + 1, Len(response))
      close == Find(rest, IsFence)
      lb == Find(response, {"lbrace"})
      rb == RFind(response, {"rbrace"})
  IN IF whole.ok THEN whole
     ELSE IF fj # 0 /\ close # 0
     THEN LET part == json_loads(SubSeq(rest, 1, close - 1))
          IN IF part.ok THEN part ELSE Parsed("object", DefaultResult)
     ELSE IF lb # 0 /\ rb # 0
     THEN LET part == json_loads(SubSeq(response, lb, rb))
          IN IF part.ok THEN part ELSE Parsed("object", DefaultResult)
     ELSE Parsed("object", DefaultResult)

\* call_ai_api's default max_retries
CallMaxRetries == 3

\* what one requests.post of call_ai_api meets: a 200 whose body holds a text
\* ("ok"), a 200 whose body has no known shape ("unknown"), another status
\* (raise_for_status raises HTTPError), or an exception of the request
\* ("timeout", "connerr")
Http(kind, status, text) == [kind |-> kind, status |-> status, text |-> text]

\* Python's None as the value of call_ai_api
NoReply == <<"<None>">>

\* call_ai_api from attempt `attempt` (0-based) on: [ret, requests]
RECURSIVE call_ai_api_loop(_, _, _)
call_ai_api_loop(responses, attempt, retries) ==
  IF attempt >= retries THEN [ret |-> NoReply, requests |-> attempt]
  ELSE LET r == responses[attempt + 1]
       IN CASE r.kind = "ok" -> [ret |-> r.text, requests |-> attempt + 1]
            [] r.kind = "unknown" -> [ret |-> NoReply, requests |-> attempt + 1]
            [] r.kind = "status" /\ r.status = 429 ->
                 IF attempt = retries - 1
                 THEN [ret |-> NoReply, requests |-> attempt + 1]
                 ELSE call_ai_api_loop(responses, attempt + 1, retries)
            [] OTHER -> [ret |-> NoReply, requests |-> attempt + 1]

call_ai_api(responses) == call_ai_api_loop(responses, 0, CallMaxRetries)

\* process_repo: [raised, requests, category, summary, key_features]
process_repo(responses) ==
  LET r == call_ai_api(responses)
      response == r.ret
  IN IF response # NoReply /\ response # <<>>
     THEN LET result == parse_ai_response(response)
          IN IF result.kind # "object"
             \* result.get on a value that is no dict: AttributeError
             THEN [raised |-> TRUE, requests |-> r.requests, category |-> None,
                   summary |-> "None", key_features |-> <<>>]
             ELSE [raised |-> FALSE, requests |-> r.requests,
                   category |-> Get(result.obj.category, CatOther),
                   summary |-> IF result.obj.summary = "<absent>" THEN "no summary"
                               ELSE result.obj.summary,
                   key_features |-> IF result.obj.key_features = <<"<absent>">>
                                    THEN <<"no features">>
                                    ELSE result.obj.key_features]
     ELSE [raised |-> FALSE, requests |-> r.requests, category |-> CatOther,
           summary |-> "cannot generate a summary",
           key_features |-> <<"cannot recognise features">>]

----------------------------------------------------------------------------
(* src/src/ai_processor.py: AIProcessor.                                   *)

\* _heuristic_classify's keyword tests, in the order of its if statements
HeuristicRules ==
  << [category |-> <<"u524d", "u7aef", "u5f00", "u53d1">>,
       keywords |-> << <<"f", "r", "o", "n", "t", "e", "n", "d">>,
                       <<"f", "r", "o", "n", "t", "-", "e", "n", "d">>,
                       <<"r", "e", "a", "c", "t">>,
                       <<"v", "u", "e">>,
                       <<"a", "n", "g", "u", "l", "a", "r">>,
                       <<"j", "a", "v", "a", "s", "c", "r", "i", "p", "t">>,
                       <<"t", "y", "p", "e", "s", "c", "r", "i", "p", "t">>,
                       <<"h", "t", "m", "l">>,
                       <<"c", "s", "s">>,
                       <<"u", "i">>,
                       <<"u", "x">> >>],
     [category |-> <<"u540e", "u7aef", "u5f00", "u53d1">>,
       keywords |-> << <<"b", "a", "c", "k", "e", "n", "d">>,
                       <<"b", "a", "c", "k", "-", "e", "n", "d">>,
                       <<"a", "p", "i">>,
                       <<"s", "e", "r", "v", "e", "r">>,
                       <<"d", "a", "t", "a", "b", "a", "s", "e">>,
                       <<"d", "j", "a", "n", "g", "o">>,
                       <<"f", "l", "a", "s", "k">>,
                       <<"e", "x", "p", "r", "e", "s", "s">>,
                       <<"s", "p", "r", "i", "n", "g">>,
                       <<"n", "o", "d", "e", ".", "j", "s">> >>],
     [category |-> <<"u5168", "u6808", "u5f00", "u53d1">>,
       keywords |-> << <<"f", "u", "l", "l", "s", "t", "a", "c", "k">>,
                       <<"f", "u", "l", "l", "-", "s", "t", "a", "c", "k">>,
                       <<"w", "e", "b", " ", "a", "p", "p">>,
                       <<"w", "e", "b", "a", "p", "p">> >>],
     [category |-> <<"u79fb", "u52a8", "u5e94", "u7528", "u5f00", "u53d1">>,
       keywords |-> << <<"m", "o", "b", "i", "l", "e">>,
                       <<"a", "n", "d", "r", "o", "i", "d">>,
                       <<"i", "o", "s">>,
                       <<"f", "l", "u", "t", "t", "e", "r">>,
                       <<"r", "e", "a", "c", "t", " ", "n", "a", "t", "i", "v", "e">>,
                       <<"s", "w", "i", "f", "t">>,
                       <<"k", "o", "t", "l", "i", "n">> >>],
     [category |-> <<"u4eba", "u5de5", "u667a", "u80fd", "/", "u673a", "u5668", "u5b66", "u4e60">>,
       keywords |-> << <<"a", "i">>,
                       <<"a", "r", "t", "i", "f", "i", "c", "i", "a", "l", " ", "i", "n", "t", "e", "l", "l", "i", "g", "e", "n", "c", "e">>,
                       <<"m", "a", "c", "h", "i", "n", "e", " ", "l", "e", "a", "r", "n", "i", "n", "g">>,
                       <<"m", "l">>,
                       <<"d", "e", "e", "p", " ", "l", "e", "a", "r", "n", "i", "n", "g">>,
                       <<"n", "e", "u", "r", "a", "l">>,
                       <<"t", "e", "n", "s", "o", "r", "f", "l", "o", "w">>,
                       <<"p", "y", "t", "o", "r", "c", "h">>,
                       <<"n", "l", "p">> >>],
     [category |-> <<"u6570", "u636e", "u79d1", "u5b66", "/", "u5206", "u6790">>,
       keywords |-> << <<"d", "a", "t", "a", " ", "s", "c", "i", "e", "n", "c", "e">>,
                       <<"d", "a", "t", "a", " ", "a", "n", "a", "l", "y", "s", "i", "s">>,
                       <<"a", "n", "a", "l", "y", "t", "i", "c", "s">>,
                       <<"v", "i", "s", "u", "a", "l", "i", "z", "a", "t", "i", "o", "n">>,
                       <<"p", "a", "n", "d", "a", "s">>,
                       <<"j", "u", "p", "y", "t", "e", "r">>,
                       <<"s", "t", "a", "t", "i", "s", "t", "i", "c", "s">> >>],
     [category |-> <<"D", "e", "v", "O", "p", "s", "/", "u57fa", "u7840", "u8bbe", "u65bd">>,
       keywords |-> << <<"d", "e", "v", "o", "p", "s">>,
                       <<"c", "i", "/", "c", "d">>,
                       <<"p", "i", "p", "e", "l", "i", "n", "e">>,
                       <<"d", "o", "c", "k", "e", "r">>,
                       <<"k", "u", "b", "e", "r", "n", "e", "t", "e", "s">>,
                       <<"k", "8", "s">>,
                       <<"i", "n", "f", "r", "a", "s", "t", "r", "u", "c", "t", "u", "r", "e">>,
                       <<"d", "e", "p", "l", "o", "y">>,
                       <<"a", "w", "s">>,
                       <<"c", "l", "o", "u", "d">> >>],
     [category |-> <<"u5b89", "u5168", "u5de5", "u5177">>,
       keywords |-> << <<"s", "e", "c", "u", "r", "i", "t", "y">>,
                       <<"p", "e", "n", "t", "e", "s", "t">>,
                       <<"p", "e", "n", "e", "t", "r", "a", "t", "i", "o", "n">>,
                       <<"h", "a", "c", "k", "i", "n", "g">>,
                       <<"v", "u", "l", "n", "e", "r", "a", "b", "i", "l", "i", "t", "y">>,
                       <<"e", "n", "c", "r", "y", "p", "t", "i", "o", "n">>,
                       <<"c", "r", "y", "p", "t", "o">> >>],
     [category |-> <<"u5f00", "u53d1", "u5de5", "u5177">>,
       keywords |-> << <<"t", "o", "o", "l">>,
                       <<"u", "t", "i", "l", "i", "t", "y">>,
                       <<"p", "l", "u", "g", "i", "n">>,
                       <<"e", "x", "t", "e", "n", "s", "i", "o", "n">>,
                       <<"i", "d", "e">>,
                       <<"e", "d", "i", "t", "o", "r">>,
                       <<"d", "e", "v", "e", "l", "o", "p", "m", "e", "n", "t", " ", "t", "o", "o", "l">> >>],
     [category |-> <<"u5b66", "u4e60", "u8d44", "u6e90">>,
       keywords |-> << <<"t", "u", "t", "o", "r", "i", "a", "l">>,
                       <<"c", "o", "u", "r", "s", "e">>,
                       <<"l", "e", "a", "r", "n", "i", "n", "g">>,
                       <<"e", "d", "u", "c", "a", "t", "i", "o", "n">>,
                       <<"b", "o", "o", "k">>,
                       <<"g", "u", "i", "d", "e">>,
                       <<"e", "x", "a", "m", "p", "l", "e">>,
                       <<"a", "w", "e", "s", "o", "m", "e">> >>],
     [category |-> <<"u533a", "u5757", "u94fe", "/", "W", "e", "b", "3">>,
       keywords |-> << <<"b", "l", "o", "c", "k", "c", "h", "a", "i", "n">>,
                       <<"w", "e", "b", "3">>,
                       <<"c", "r", "y", "p", "t", "o">>,
                       <<"n", "f", "t">>,
                       <<"t", "o", "k", "e", "n">>,
                       <<"e", "t", "h", "e", "r", "e", "u", "m">>,
                       <<"b", "i", "t", "c", "o", "i", "n">>,
                       <<"s", "o", "l", "i", "d", "i", "t", "y">> >>],
     [category |-> <<"u6e38", "u620f", "u5f00", "u53d1">>,
       keywords |-> << <<"g", "a", "m", "e">>,
                       <<"u", "n", "i", "t", "y">>,
                       <<"u", "n", "r", "e", "a", "l">>,
                       <<"g", "a", "m", "i", "n", "g">> >>],
     [category |-> <<"u7269", "u8054", "u7f51">>,
       keywords |-> << <<"i", "o", "t">>,
                       <<"i", "n", "t", "e", "r", "n", "e", "t", " ", "o", "f", " ", "t", "h", "i", "n", "g", "s">>,
                       <<"e", "m", "b", "e", "d", "d", "e", "d">>,
                       <<"a", "r", "d", "u", "i", "n", "o">>,
                       <<"r", "a", "s", "p", "b", "e", "r", "r", "y", " ", "p", "i">> >>],
     [category |-> <<"u5b66", "u4e60", "u8d44", "u6e90">>,
       keywords |-> << <<"a", "w", "e", "s", "o", "m", "e">>,
                       <<"l", "i", "s", "t">>,
                       <<"r", "e", "s", "o", "u", "r", "c", "e">>,
                       <<"c", "o", "l", "l", "e", "c", "t", "i", "o", "n">>,
                       <<"t", "u", "t", "o", "r", "i", "a", "l">>,
                       <<"g", "u", "i", "d", "e">>,
                       <<"b", "o", "o", "k">>,
                       <<"c", "o", "u", "r", "s", "e">>,
                       <<"l", "e", "a", "r", "n">>,
                       <<"c", "h", "e", "a", "t", "s", "h", "e", "e", "t">>,
                       <<"d", "o", "c", "u", "m", "e", "n", "t", "a", "t", "i", "o", "n">> >>] >>

UpperChars ==
  <<"A", "B", "C", "D", "E", "F", "G", "H", "I", "J", "K", "L", "M",
    "N", "O", "P", "Q", "R", "S", "T", "U", "V", "W", "X", "Y", "Z">>

LowerChars ==
  <<"a", "b", "c", "d", "e", "f", "g", "h", "i", "j", "k", "l", "m",
    "n", "o", "p", "q", "r", "s", "t", "u", "v", "w", "x", "y", "z">>

\* str.lower of one character that has a lower case
LowerOf == [c \in Range(UpperChars) |->
              LowerChars[CHOOSE k \in DOMAIN UpperChars : UpperChars[k] = c]]

\* str.lower
Lower(text) ==
  [i \in DOMAIN text |-> IF text[i] \in DOMAIN LowerOf THEN LowerOf[text[i]] ELSE text[i]]

IsSpace(c) == c \in {" ", "\n", "\t"}

\* str.strip
RECURSIVE Strip(_)
Strip(text) ==
  IF text # <<>> /\ IsSpace(Head(text)) THEN Strip(Tail(text))
  ELSE IF text # <<>> /\ IsSpace(text[Len(text)])
  THEN Strip(SubSeq(text, 1, Len(text) - 1))
  ELSE text

\* sub in text
Contains(sub, text) ==
  \E i \in 0..(Len(text) - Len(sub)) : \A j \in DOMAIN sub : text[i + j] = sub[j]

\* sep.join(texts)
RECURSIVE Join(_, _)
Join(sep, texts) ==
  IF texts = <<>> THEN <<>>
  ELSE IF Len(texts) = 1 THEN texts[1]
  ELSE texts[1] \o sep \o Join(sep, Tail(texts))

DigitChars == <<"0", "1", "2", "3", "4", "5", "6", "7", "8", "9">>

\* str(n) of a natural number
RECURSIVE Str(_)
Str(n) ==
  IF n < 10 THEN <<DigitChars[n + 1]>>
  ELSE Str(n \div 10) \o <<DigitChars[(n % 10) + 1]>>

\* a repository as the classifier receives it; id 0 stands for a dict whose
\* "id" is absent, None or 0, which `or` treats alike
RepoData(id, full_name, description, language, topics) ==
  [id |-> id, full_name |-> full_name, description |-> description,
   language |-> language, topics |-> topics]

\* f"classify_{repo_data.get('id') or repo_data.get('full_name')}"
cache_key(repo_data) ==
  <<"c", "l", "a", "s", "s", "i", "f", "y", "_">>
    \o (IF repo_data.id # 0 THEN Str(repo_data.id) ELSE repo_data.full_name)

\* the repositories the classifiers are given
AiRepos ==
  { RepoData(1, <<"o", "/", "a">>, <<"V", "u", "e", " ", "k", "i", "t">>, <<"J", "S">>, <<>>),
    RepoData(1, <<"o", "/", "a">>, <<"E", "n", "g", "i", "n", "e">>, <<"C">>,
             << <<"U", "n", "i", "t", "y">> >>),
    RepoData(0, <<"o", "/", "c">>, None, None, <<>>) }

\* a classifier that knows the default category only
heuristic_default_only(repo_data) == CatOther

\* _heuristic_classify, computed
heuristic_by_rules(repo_data) ==
  LET description == IF repo_data.description \in {None, <<>>} THEN <<>>
                     ELSE Lower(repo_data.description)
      language == IF repo_data.language \in {None, <<>>} THEN <<>>
                  ELSE Lower(repo_data.language)
      topics == [i \in DOMAIN repo_data.topics |-> Lower(repo_data.topics[i])]
      all_text == description \o <<" ">> \o language \o <<" ">> \o Join(<<" ">>, topics)
      hits == {r \in DOMAIN HeuristicRules :
                 \E k \in DOMAIN HeuristicRules[r].keywords :
                   Contains(HeuristicRules[r].keywords[k], all_text)}
  IN IF hits = {} THEN CatOther
     ELSE HeuristicRules[CHOOSE r \in hits : \A q \in hits : r <= q].category

\* _heuristic_classify of each repository of AiRepos, computed once
HeuristicOfRepo == [repo_data \in AiRepos |-> heuristic_by_rules(repo_data)]

_heuristic_classify(repo_data) ==
  IF repo_data \in AiRepos THEN HeuristicOfRepo[repo_data]
  ELSE heuristic_by_rules(repo_data)

\* _call_github_ai from attempt `attempt` (0-based) on: [ret, requests]; ret is
\* the reply text, "" after a failure on the last attempt, None when the loop
\* ends without a return
RECURSIVE _call_github_ai_loop(_, _, _)
_call_github_ai_first_only(responses, attempt, retries) ==
  [ret |-> IF retries > 0 /\ responses[1].kind = "ok" THEN responses[1].text ELSE None,
   requests |-> IF retries > 0 THEN 1 ELSE 0]

_call_github_ai_loop(responses, attempt, retries) ==
  IF attempt >= retries THEN [ret |-> None, requests |-> attempt]
  ELSE LET response == responses[attempt + 1]
       IN CASE response.kind = "status" /\ response.status = 429 ->
                 _call_github_ai_loop(responses, attempt + 1, retries)
            [] response.kind = "ok" ->
                 [ret |-> response.text, requests |-> attempt + 1]
            [] OTHER ->
                 IF attempt < retries - 1
                 THEN _call_github_ai_loop(responses, attempt + 1, retries)
                 ELSE [ret |-> <<>>, requests |-> attempt + 1]

_call_github_ai(key_set, responses, retries) ==
  IF ~key_set THEN [ret |-> <<>>, requests |-> 0]
  ELSE _call_github_ai_loop(responses, 0, retries)

EmptyCache == [k \in {} |-> <<>>]

\* self.cache[cache_key] = result
cache_skip(c, key, result) == c

cache_store(c, key, result) ==
  [k \in DOMAIN c \cup {key} |-> IF k = key THEN result ELSE c[k]]

\* get_cache_stats (hit_rate, a quotient of the two counters, is left out)
get_cache_stats(hits, misses) ==
  [hits |-> hits, misses |-> misses, total |-> hits + misses]

\* category.lower() of each configured category
LowerCategories == [i \in DOMAIN CONFIG_categories |-> Lower(CONFIG_categories[i])]

\* the first configured category that the answer is part of or that is part
\* of the answer, 0 when there is none
ClosestCategory(result) ==
  LET lower == Lower(result)
      close == {i \in DOMAIN CONFIG_categories :
                  \/ Contains(lower, LowerCategories[i])
                  \/ Contains(LowerCategories[i], lower)}
  IN IF close = {} THEN 0 ELSE CHOOSE i \in close : \A j \in close : i <= j

\* classify_repository: [result, path, requests, cache, cache_hits, cache_misses]
classify_repository(repo_data, key_set, retries, c, hits, misses, responses) ==
  LET key == cache_key(repo_data)
      Miss(result, path, requests) ==
        [result |-> result, path |-> path, requests |-> requests,
         cache |-> cache_store(c, key, result),
         cache_hits |-> hits, cache_misses |-> misses + 1]
  IN IF key \in DOMAIN c
     THEN [result |-> c[key], path |-> "cache", requests |-> 0,
           cache |-> c, cache_hits |-> hits + 1, cache_misses |-> misses]
     ELSE IF ~key_set
     THEN Miss(_heuristic_classify(repo_data), "no_key", 0)
     ELSE LET call == _call_github_ai(key_set, responses, retries)
          IN IF call.ret = None
             \* classification.strip() on None: AttributeError, caught
             THEN Miss(_heuristic_classify(repo_data), "except", call.requests)
             ELSE LET result == Strip(call.ret)
                  IN IF result \in Range(CONFIG_categories)
                     THEN Miss(result, "ai", call.requests)
                     ELSE LET closest == ClosestCategory(result)
                          IN IF closest # 0
                             THEN Miss(CONFIG_categories[closest], "closest", call.requests)
                             ELSE Miss(_heuristic_classify(repo_data), "heuristic",
                                       call.requests)

----------------------------------------------------------------------------
(* The state of each part of the program before it is used. *)

\* what an operation gave its caller: op, its return value, what its save step
\* returned, the records it was given and the in-memory data afterwards
Op(op, ret, saved, repos_in, data) ==
  [op |-> op, ret |-> ret, saved |-> saved, repos_in |-> repos_in, data |-> data]

NoOp == Op("none", "n/a", "n/a", <<>>, _create_empty_data_structure)

MergeIdle ==
  /\ existing_repos = <<>>
  /\ new_repos = <<>>
  /\ merged_repos = [done |-> FALSE, repos |-> <<>>]

StoreIdle ==
  /\ data_file = NoFile("missing")
  /\ backup_file = NoFile("missing")
  /\ auto_backup = FALSE
  /\ writable = TRUE
  /\ lastOp = NoOp

WorkersIdle == workers = <<>>

\* no function call is under way
NoArgs == [fn |-> "none"]

Pending == [done |-> FALSE]

CallIdle == args = NoArgs /\ outcome = Pending

\* the last classifier call: the operation, the repository, what it answered
\* (result, raised) and how (path, requests, all429: every response the
\* endpoint had for it was a 429)
Call(op, repo_data, result, raised, path, requests, all429) ==
  [op |-> op, repo_data |-> repo_data, result |-> result, raised |-> raised,
   path |-> path, requests |-> requests, all429 |-> all429]

NoRepo == RepoData(0, <<>>, <<>>, <<>>, <<>>)

NoCall == Call("none", NoRepo, <<>>, FALSE, "n/a", 0, FALSE)

AiIdle ==
  /\ program = "none"
  /\ api_key = FALSE
  /\ max_retries = 0
  /\ cache = EmptyCache
  /\ cache_hits = 0
  /\ cache_misses = 0
  /\ cache_origin = EmptyCache
  /\ lastCall = NoCall

----------------------------------------------------------------------------
(* Specification SpecMerge: merge_repositories on bounded inputs. *)

MergeIds == {1, 2, 3}

\* a classification an earlier run stored
StoredClassification ==
  [is_classified |-> TRUE, category |-> CatDevTools, summary |-> "a tool",
   key_features |-> <<"fast">>]

\* classification fields an incoming record might carry
IncomingClassification ==
  [is_classified |-> TRUE, category |-> CatFrontend, summary |-> "a page",
   key_features |-> <<"slow">>]

ExistingRecords ==
  {Record(id, 10, cls) : id \in MergeIds, cls \in {Unclassified, StoredClassification}}

IncomingRecords ==
  {Record(id, s, cls) : id \in MergeIds, s \in {10, 20},
                        cls \in {Unclassified, IncomingClassification}}

InitMerge ==
  /\ existing_repos \in {s \in SeqsUpTo(ExistingRecords, MaxExisting) : DistinctIds(s)}
  /\ new_repos \in SeqsUpTo(IncomingRecords, MaxIncoming)
  /\ merged_repos = [done |-> FALSE, repos |-> <<>>]
  /\ StoreIdle /\ WorkersIdle /\ AiIdle /\ CallIdle

Merge ==
  /\ ~merged_repos.done
  /\ merged_repos' = [done |-> TRUE,
                      repos |-> merge_repositories(existing_repos, new_repos)]
  /\ UNCHANGED <<existing_repos, new_repos, storeVars, workerVars, aiVars, callVars>>

NextMerge == Merge

SpecMerge == InitMerge /\ [][NextMerge]_vars

\* the last incoming record that carries this id
LastIncoming(id) ==
  new_repos[Max({k \in DOMAIN new_repos : new_repos[k].id = id})]

InBoth(i) == \E k \in DOMAIN new_repos : new_repos[k].id = existing_repos[i].id

\* C1: for every id present in both lists, the merged record keeps
\* is_classified, category, summary and key_features of the existing record
\* and takes its other fields (stargazers_count) from the incoming record.
C1_MergeKeepsClassification ==
  merged_repos.done =>
    \A i \in DOMAIN existing_repos :
      InBoth(i) =>
        LET E == existing_repos[i]
            N == LastIncoming(E.id)
            M == merged_repos.repos[i]
        IN /\ M.id = E.id
           /\ ClassificationOf(M) = ClassificationOf(E)
           /\ M.stargazers_count = N.stargazers_count

\* an id in both lists, classified in the store, incoming with another star
\* count and other classification fields
C1_Witness ==
  /\ merged_repos.done
  /\ \E i \in DOMAIN existing_repos :
       /\ InBoth(i)
       /\ existing_repos[i].is_classified
       /\ LastIncoming(existing_repos[i].id).stargazers_count
            # existing_repos[i].stargazers_count
       /\ ClassificationOf(LastIncoming(existing_repos[i].id))
            # ClassificationOf(existing_repos[i])

\* C3: the existing list has pairwise distinct ids, so the list that
\* merge_repositories returns has pairwise distinct ids, for every incoming
\* list.
C3_MergedIdsUnique ==
  (merged_repos.done /\ DistinctIds(existing_repos)) => DistinctIds(merged_repos.repos)

----------------------------------------------------------------------------
(* Specification SpecStore: the store file under fetch runs, classification *)
(* updates, loads and saves, and the faults of its file system.             *)

\* the longest list a fetch run returns
MaxFetch == 2

StoreIds == {1, 2}

\* raw payloads of the star listing
RawPayloads == {[id |-> i, stargazers_count |-> 10 * i] : i \in StoreIds}

\* what fetch_starred_repos can return: a list of processed payloads
FetchResults ==
  {[k \in DOMAIN s |-> _process_repo_data(s[k])] : s \in SeqsUpTo(RawPayloads, MaxFetch)}

\* reply texts of the AI endpoint
ReplyTexts ==
  { <<"lbrace", "valid", "rbrace">>,
    <<"prose", "nl", "fence_json", "nl", "lbrace", "valid", "rbrace", "nl", "fence", "nl">>,
    <<"prose", "lbrace", "outside", "rbrace">>,
    <<"lbrace", "nocat", "rbrace">>,
    <<"lbrace", "nullcat", "rbrace">>,
    <<"prose">>,
    <<"scalar">>,
    <<>> }

ClassifyResponses ==
  {Http("ok", 200, t) : t \in ReplyTexts}
    \cup {Http("unknown", 200, <<>>), Http("status", 429, <<>>), Http("status", 400, <<>>),
          Http("status", 500, <<>>), Http("timeout", 0, <<>>), Http("connerr", 0, <<>>)}

ClassifyResponseSeqs == [1..CallMaxRetries -> ClassifyResponses]

\* every result process_repo can return
ProcessOutcomes == {process_repo(rs) : rs \in ClassifyResponseSeqs}

\* the classifications process_repo hands to the store
StoreClassifications ==
  {[category |-> o.category, summary |-> o.summary, key_features |-> o.key_features] :
     o \in {x \in ProcessOutcomes : ~x.raised}}

\* metadata a caller of save_data may pass in
CallerMetadata ==
  {[total_count |-> -1, classified_count |-> -1, unclassified_count |-> -1],
   [total_count |-> 7, classified_count |-> 7, unclassified_count |-> 0]}

InitStore ==
  /\ data_file = NoFile("missing")
  /\ backup_file = NoFile("missing")
  /\ auto_backup \in BOOLEAN
  /\ writable = TRUE
  /\ lastOp = NoOp
  /\ MergeIdle /\ WorkersIdle /\ AiIdle /\ CallIdle

\* fetch_stars.py main: fetch_starred_repos, then save_repos_data; open(..., 'w')
\* is not guarded there, so a failed write raises
FetchRunOf(results) ==
  \E repos \in results :
    /\ data_file' = IF writable THEN save_repos_data(repos) ELSE data_file
    /\ lastOp' = Op("fetch_run", IF writable THEN "path" ELSE "raised", "n/a", <<>>,
                    _create_empty_data_structure)
    /\ UNCHANGED <<backup_file, auto_backup, writable, mergeVars, workerVars, aiVars, callVars>>

\* a classification worker's store update for one record
UpdateClassificationOf(classifications) ==
  \E repo_id \in StoreIds, c \in classifications :
    LET U == update_repository_classification(repo_id, c, data_file, backup_file,
                                              auto_backup, writable)
    IN /\ data_file' = U.data_file
       /\ backup_file' = U.backup_file
       /\ lastOp' = Op("update_repository_classification", U.ret, U.saved, <<>>,
                       _create_empty_data_structure)
       /\ UNCHANGED <<auto_backup, writable, mergeVars, workerVars, aiVars, callVars>>

LoadData ==
  LET L == load_data(data_file, backup_file)
  IN /\ lastOp' = Op("load_data", L.ret, "n/a", <<>>, L.data)
     /\ UNCHANGED <<data_file, backup_file, auto_backup, writable, mergeVars, workerVars,
                    aiVars, callVars>>

\* save_data on loaded data whose metadata the caller has set to anything
SaveData ==
  \E md \in CallerMetadata :
    LET L == load_data(data_file, backup_file)
        given == [L.data EXCEPT !.metadata = md]
        S == save_data(given, data_file, backup_file, auto_backup, writable)
    IN /\ L.ret = "store"
       /\ data_file' = S.data_file
       /\ backup_file' = S.backup_file
       /\ lastOp' = Op("save_data", S.ret, S.ret, given.repositories, S.data)
       /\ UNCHANGED <<auto_backup, writable, mergeVars, workerVars, aiVars, callVars>>

FetchRun == FetchRunOf(FetchResults)

UpdateClassification == UpdateClassificationOf(StoreClassifications)

NextStore ==
  \/ FetchRun
  \/ UpdateClassification
  \/ LoadData
  \/ SaveData

SpecStore == InitStore /\ [][NextStore]_vars

Repos(file) == file.data.repositories

\* C2: a fetch run (fetch_starred_repos, then saving its result) removes no
\* record that was in the store and changes no classification field of a
\* record that was classified.
C2_FetchRunPreservesStore ==
  [][(lastOp'.op = "fetch_run" /\ lastOp'.ret = "path" /\ data_file.st = "ok") =>
       \A i \in DOMAIN Repos(data_file) :
         \E j \in DOMAIN Repos(data_file') :
           /\ Repos(data_file')[j].id = Repos(data_file)[i].id
           /\ Repos(data_file)[i].is_classified =>
                ClassificationOf(Repos(data_file')[j]) =
                  ClassificationOf(Repos(data_file)[i])]_vars

\* C4: every record of the store with is_classified = TRUE has a category of
\* the configured category list, whatever the AI endpoint answered.
C4_ClassifiedCategoryConfigured ==
  data_file.st = "ok" =>
    \A i \in DOMAIN Repos(data_file) :
      Repos(data_file)[i].is_classified =>
        Repos(data_file)[i].category \in Range(CONFIG_categories)

MetadataOf(repos) ==
  [total_count |-> Len(repos), classified_count |-> CountClassified(repos),
   unclassified_count |-> Len(repos) - CountClassified(repos)]

\* C8: after every successful save_data the saved metadata holds the number
\* of records, the number of classified records and their difference,
\* whatever metadata the caller passed in.
C8_MetadataRecomputedOnSave ==
  (lastOp.op \in {"save_data", "update_repository_classification"}
     /\ lastOp.saved = "True") =>
    /\ data_file.st = "ok"
    /\ data_file.data.metadata = MetadataOf(Repos(data_file))

\* a save_data that succeeded on a store of classified and unclassified
\* records, called with metadata that does not fit them
C8_Witness ==
  /\ lastOp.op = "save_data"
  /\ lastOp.saved = "True"
  /\ CountClassified(Repos(data_file)) >= 1
  /\ CountClassified(Repos(data_file)) < Len(Repos(data_file))

----------------------------------------------------------------------------
(* Specification SpecFaults: the store file under the faults of its file   *)
(* system, on a small store.                                               *)

FaultFetchResults ==
  { <<>>,
    <<_process_repo_data([id |-> 1, stargazers_count |-> 10])>>,
    <<_process_repo_data([id |-> 1, stargazers_count |-> 10]),
      _process_repo_data([id |-> 2, stargazers_count |-> 10])>> }

FaultClassifications ==
  {[category |-> CatDevTools, summary |-> "A CLI tool for X",
    key_features |-> <<"fast", "simple">>]}

FetchRunFaulty == FetchRunOf(FaultFetchResults)

UpdateClassificationFaulty == UpdateClassificationOf(FaultClassifications)

\* the data file or the backup is damaged, removed or made unreadable;
\* writing starts or stops failing
DamageDataFile ==
  \E st \in {"corrupt", "missing", "unreadable"} :
    /\ data_file.st \in {"ok", "corrupt"}
    /\ data_file.st # st
    /\ data_file' = NoFile(st)
    /\ lastOp' = NoOp
    /\ UNCHANGED <<backup_file, auto_backup, writable, mergeVars, workerVars, aiVars, callVars>>

DamageBackup ==
  \E st \in {"corrupt", "missing", "unreadable"} :
    /\ backup_file.st \in {"ok", "corrupt"}
    /\ backup_file.st # st
    /\ backup_file' = NoFile(st)
    /\ lastOp' = NoOp
    /\ UNCHANGED <<data_file, auto_backup, writable, mergeVars, workerVars, aiVars, callVars>>

SetWritable ==
  /\ writable' = ~writable
  /\ lastOp' = NoOp
  /\ UNCHANGED <<data_file, backup_file, auto_backup, mergeVars, workerVars, aiVars, callVars>>

NextFaults ==
  \/ FetchRunFaulty
  \/ UpdateClassificationFaulty
  \/ LoadData
  \/ SaveData
  \/ DamageDataFile
  \/ DamageBackup
  \/ SetWritable

SpecFaults == InitStore /\ [][NextFaults]_vars

\* C6: load_data returns a store in every state of the file system and never
\* raises: an empty store for a missing file; for a file that is not JSON
\* the backup's content when the backup is readable, else an empty store;
\* a store for every other read error.
C6_LoadDataNeverRaises ==
  lastOp.op = "load_data" =>
    /\ lastOp.ret = "store"
    /\ data_file.st = "missing" => lastOp.data = _create_empty_data_structure
    /\ data_file.st = "ok" => lastOp.data = data_file.data
    /\ (data_file.st = "corrupt" /\ backup_file.st = "ok") =>
         lastOp.data = backup_file.data
    /\ (data_file.st = "corrupt" /\ backup_file.st # "ok") =>
         lastOp.data = _create_empty_data_structure

\* C7: a failed write is surfaced as a failure value: save_data returns False
\* and leaves the in-memory records as given, and
\* update_repository_classification does not return True when its save
\* failed.
C7_SaveFailureSurfaced ==
  /\ (lastOp.op = "save_data" /\ ~writable) =>
       (lastOp.ret = "False" /\ lastOp.data.repositories = lastOp.repos_in)
  /\ (lastOp.op = "update_repository_classification" /\ lastOp.saved = "False") =>
       lastOp.ret # "True"

----------------------------------------------------------------------------
(* Specification SpecWorkers: the workers of classify_repos, each updating *)
(* the store for its repository with update_repository_classification      *)
(* (data=None): load_data, then the change and save_data.  Nothing in the   *)
(* program orders the steps of two workers: classify_repos imports Lock     *)
(* and takes none.                                                          *)

\* classify_repos: max_concurrent
max_concurrent == 2

WorkerIds == {1, 2, 3}

\* the store the workers start from: one fetched, unclassified record per id
WorkerStore ==
  save_repos_data([k \in 1..Cardinality(WorkerIds) |->
                     _process_repo_data([id |-> k, stargazers_count |-> 10])])

WorkerClassifications ==
  {[category |-> CatDevTools, summary |-> "A CLI tool for X",
    key_features |-> <<"fast", "simple">>],
   [category |-> CatOther, summary |-> "cannot generate a summary",
    key_features |-> <<"cannot recognise features">>]}

IdleWorker ==
  [pc |-> "idle", repo_id |-> 0, data |-> _create_empty_data_structure]

\* the ids whose update has been started
Started == {workers.pool[w].repo_id : w \in DOMAIN workers.pool} \cup workers.returned

InitWorkers ==
  /\ workers = [pool |-> [w \in 1..max_concurrent |-> IdleWorker], returned |-> {}]
  /\ data_file = WorkerStore
  /\ backup_file = NoFile("missing")
  /\ auto_backup \in BOOLEAN
  /\ writable = TRUE
  /\ lastOp = NoOp
  /\ MergeIdle /\ AiIdle /\ CallIdle

\* update_repository_classification up to its save: data = self.load_data(), the
\* record is found and changed in the worker's own copy
WorkerLoad(w) ==
  \E repo_id \in WorkerIds \ Started, c \in WorkerClassifications :
    LET L == load_data(data_file, backup_file)
        i == IndexOfId(L.data.repositories, repo_id)
    IN /\ workers.pool[w].pc = "idle"
       /\ L.ret = "store"
       /\ i # 0
       /\ workers' = [workers EXCEPT !.pool[w] =
            [pc |-> "loaded", repo_id |-> repo_id,
             data |-> [L.data EXCEPT !.repositories[i] =
                         apply_classification(L.data.repositories[i], c)]]]
       /\ UNCHANGED <<storeVars, mergeVars, aiVars, callVars>>

\* self.save_data(data); return True
WorkerSave(w) ==
  LET S == save_data(workers.pool[w].data, data_file, backup_file, auto_backup, writable)
  IN /\ workers.pool[w].pc = "loaded"
     /\ data_file' = S.data_file
     /\ backup_file' = S.backup_file
     /\ workers' = [pool |-> [workers.pool EXCEPT ![w] = IdleWorker],
                    returned |-> workers.returned \cup {workers.pool[w].repo_id}]
     /\ UNCHANGED <<auto_backup, writable, lastOp, mergeVars, aiVars, callVars>>

NextWorkers == \E w \in 1..max_concurrent : WorkerLoad(w) \/ WorkerSave(w)

SpecWorkers == InitWorkers /\ [][NextWorkers]_vars

ClassifiedInStore(repo_id) ==
  /\ data_file.st = "ok"
  /\ \E i \in DOMAIN Repos(data_file) :
       Repos(data_file)[i].id = repo_id /\ Repos(data_file)[i].is_classified

\* C5: when concurrent workers have updated different record ids and every
\* one has returned, each of those records is classified in the persisted
\* store: no update is lost.
C5_NoLostUpdate ==
  (\A w \in DOMAIN workers.pool : workers.pool[w].pc = "idle") =>
    \A repo_id \in workers.returned : ClassifiedInStore(repo_id)

----------------------------------------------------------------------------
(* Specification SpecAI: the two classifiers against an AI endpoint:       *)
(* AIProcessor.classify_repository with its cache, and process_repo.       *)

\* the largest configured config["ai"]["max_retries"]
MaxRetries == 3
\* the most calls of classify_repository on one AIProcessor
MaxCalls == 3

\* what the endpoint of AIProcessor answers to one request: a reply text, or
\* a failure
AiReplies ==
  { Http("ok", 200, <<" ", "u5f00", "u53d1", "u5de5", "u5177", "\n">>),
    Http("ok", 200, <<"d", "e", "v", "o", "p", "s">>),
    Http("ok", 200, <<"u91cf", "u5b50">>) }

AiFailures ==
  { Http("status", 429, <<>>), Http("status", 500, <<>>), Http("timeout", 0, <<>>) }

\* what the endpoint answers to the requests of one call that may send n of
\* them: failures, ended by a reply unless all n requests fail
AiScripts(n) ==
  [1..n -> AiFailures]
    \cup {Append(f, r) : f \in SeqsUpTo(AiFailures, n - 1), r \in AiReplies}

\* what the endpoint of call_ai_api answers to the requests of one call: 429s,
\* ended by another response unless all CallMaxRetries requests meet a 429
ProcessEndings ==
  { Http("ok", 200, <<"lbrace", "valid", "rbrace">>),
    Http("ok", 200, <<"scalar">>),
    Http("timeout", 0, <<>>) }

ProcessScripts ==
  {[i \in 1..CallMaxRetries |-> Http("status", 429, <<>>)]}
    \cup {Append([i \in 1..k |-> Http("status", 429, <<>>)], e) :
            k \in 0..(CallMaxRetries - 1), e \in ProcessEndings}

All429(responses) ==
  \A i \in DOMAIN responses : responses[i].kind = "status" /\ responses[i].status = 429

\* update_stars.py classifies with an AIProcessor, classify.py with process_repo
InitAI ==
  /\ program \in {"update_stars", "classify"}
  /\ api_key \in BOOLEAN
  /\ max_retries \in 0..MaxRetries
  /\ cache = EmptyCache
  /\ cache_hits = 0
  /\ cache_misses = 0
  /\ cache_origin = EmptyCache
  /\ lastCall = NoCall
  /\ MergeIdle /\ StoreIdle /\ WorkersIdle /\ CallIdle

ClassifyRepository ==
  /\ program = "update_stars"
  /\ cache_hits + cache_misses < MaxCalls
  /\ \E repo_data \in AiRepos, responses \in AiScripts(max_retries) :
       LET r == classify_repository(repo_data, api_key, max_retries, cache, cache_hits,
                                    cache_misses, responses)
       IN /\ cache' = r.cache
          /\ cache_hits' = r.cache_hits
          /\ cache_misses' = r.cache_misses
          /\ cache_origin' = IF r.path = "cache" THEN cache_origin
                             ELSE cache_store(cache_origin, cache_key(repo_data), r.path)
          /\ lastCall' = Call("classify_repository", repo_data, r.result, FALSE, r.path,
                              r.requests, All429(responses))
  /\ UNCHANGED <<program, api_key, max_retries, mergeVars, storeVars, workerVars, callVars>>

ClearCache ==
  /\ program = "update_stars"
  /\ cache' = EmptyCache
  /\ cache_origin' = EmptyCache
  /\ lastCall' = Call("clear_cache", NoRepo, <<>>, FALSE, "n/a", 0, FALSE)
  /\ UNCHANGED <<program, api_key, max_retries, cache_hits, cache_misses, mergeVars,
                 storeVars, workerVars, callVars>>

ProcessRepo ==
  /\ program = "classify"
  /\ \E repo_data \in AiRepos, responses \in ProcessScripts :
       LET r == process_repo(responses)
       IN lastCall' = Call("process_repo", repo_data, r.category, r.raised, "n/a",
                           r.requests, All429(responses))
  /\ UNCHANGED <<program, api_key, max_retries, cache, cache_hits, cache_misses,
                 cache_origin, mergeVars, storeVars, workerVars, callVars>>

NextAI == ClassifyRepository \/ ClearCache \/ ProcessRepo

SpecAI == InitAI /\ [][NextAI]_vars

\* C9: when classify_repository is called twice running for records with the
\* same id, the second call returns what the first returned, adds one to the
\* cache hits and nothing to the cache misses, and sends no request; also
\* when the first result came from a fallback after a failure.
C9_SecondCallFromCache ==
  [][(/\ lastCall.op = "classify_repository"
      /\ lastCall'.op = "classify_repository"
      /\ cache_hits' + cache_misses' = cache_hits + cache_misses + 1
      /\ lastCall.repo_data.id # 0
      /\ lastCall'.repo_data.id = lastCall.repo_data.id) =>
       /\ lastCall'.result = lastCall.result
       /\ get_cache_stats(cache_hits', cache_misses').hits
            = get_cache_stats(cache_hits, cache_misses).hits + 1
       /\ get_cache_stats(cache_hits', cache_misses').misses
            = get_cache_stats(cache_hits, cache_misses).misses
       /\ lastCall'.requests = 0]_vars

\* a second call for an id whose first result was the fallback after a failure
C9_Witness ==
  /\ lastCall.op = "classify_repository"
  /\ lastCall.repo_data.id # 0
  /\ api_key
  /\ max_retries > 0
  /\ lastCall.path = "cache"
  /\ lastCall.requests = 0
  /\ cache_origin[cache_key(lastCall.repo_data)] = "except"
  /\ cache_hits = 1
  /\ cache_misses = 1

\* the requests a classifier may spend on one repository
RetriesOf(op) == IF op = "process_repo" THEN CallMaxRetries ELSE max_retries

\* a classification that asked an endpoint which answers 429 to every request
Classified429 ==
  /\ lastCall.op \in {"classify_repository", "process_repo"}
  /\ lastCall.op = "classify_repository" => api_key /\ lastCall.path # "cache"
  /\ lastCall.all429

----------------------------------------------------------------------------
(* Specification SpecEndpoint: one classification by classify_repository  *)
(* (empty cache, API key set) or one call_ai_api, against every endpoint  *)
(* behaviour within the bounds.                                           *)

\* what the endpoint answers to one request: a completion (the last one is
\* empty), or a failure
EndpointReplies == AiReplies \cup {Http("ok", 200, <<>>)}

EndpointFailures ==
  AiFailures \cup {Http("status", 400, <<>>), Http("status", 401, <<>>),
                   Http("connerr", 0, <<>>)}

EndpointScripts(n) ==
  [1..n -> EndpointFailures]
    \cup {Append(f, r) : f \in SeqsUpTo(EndpointFailures, n - 1), r \in EndpointReplies}

CallArgs(fn, repo_data, retries, responses) ==
  [fn |-> fn, repo_data |-> repo_data, max_retries |-> retries, responses |-> responses]

\* what a call gave: its result, whether it raised, the text the request loop
\* returned and the requests it sent
CallOutcome(result, raised, reply, requests) ==
  [done |-> TRUE, result |-> result, raised |-> raised, reply |-> reply,
   requests |-> requests]

InitEndpoint ==
  /\ args \in UNION {{CallArgs("classify_repository", repo_data, n, responses) :
                        repo_data \in AiRepos, responses \in EndpointScripts(n)} :
                     n \in 0..MaxRetries}
              \cup {CallArgs("call_ai_api", NoRepo, CallMaxRetries, responses) :
                      responses \in EndpointScripts(CallMaxRetries)}
  /\ outcome = Pending
  /\ MergeIdle /\ StoreIdle /\ WorkersIdle /\ AiIdle

\* AIProcessor(api_key).classify_repository(repo_data) on a new processor
CallClassifyRepository ==
  /\ args.fn = "classify_repository"
  /\ ~outcome.done
  /\ LET r == classify_repository(args.repo_data, TRUE, args.max_retries, EmptyCache,
                                  0, 0, args.responses)
         call == _call_github_ai(TRUE, args.responses, args.max_retries)
     IN outcome' = CallOutcome(r.result, FALSE, call.ret, r.requests)
  /\ UNCHANGED <<args, mergeVars, storeVars, workerVars, aiVars>>

\* call_ai_api(api_key, api_url, model, prompt)
CallAiApi ==
  /\ args.fn = "call_ai_api"
  /\ ~outcome.done
  /\ LET r == call_ai_api(args.responses)
     IN outcome' = CallOutcome(r.ret, FALSE, r.ret, r.requests)
  /\ UNCHANGED <<args, mergeVars, storeVars, workerVars, aiVars>>

NextEndpoint == CallClassifyRepository \/ CallAiApi

SpecEndpoint == InitEndpoint /\ [][NextEndpoint]_vars

\* every request of the call timed out
AllTimedOut ==
  /\ args.max_retries >= 1
  /\ Len(args.responses) = args.max_retries
  /\ \A i \in DOMAIN args.responses : args.responses[i].kind = "timeout"

\* C11: when the AI service is unavailable (every request times out, or the
\* request loop ends with an empty completion), classify_repository assigns
\* the category the heuristic classifier computes for the repository, and
\* that category is not null.
C11_HeuristicWhenUnavailable ==
  (/\ outcome.done
   /\ args.fn = "classify_repository"
   /\ AllTimedOut \/ outcome.reply = <<>>) =>
    /\ outcome.result = _heuristic_classify(args.repo_data)
    /\ outcome.result # None

\* the failures the claim calls retryable, and the 4xx it calls non-retryable
Retryable(response) ==
  \/ response.kind \in {"timeout", "connerr"}
  \/ response.kind = "status" /\ response.status = 429

ClientError(response) ==
  response.kind = "status" /\ response.status \in {400, 401}

Failed(response) == response.kind # "ok"

\* the responses the call received
Received == 1..outcome.requests

----------------------------------------------------------------------------
(* Specification SpecParse: parse_ai_response on every reply text within  *)
(* the bound.                                                             *)

\* the longest reply text, in tokens
MaxReply == 5

ReplyTokens ==
  {"prose", "nl", "fence_json", "fence", "lbrace", "rbrace", "scalar", "valid"}

InitParse ==
  /\ args \in {[fn |-> "parse_ai_response", response |-> t] :
                 t \in SeqsUpTo(ReplyTokens, MaxReply)}
  /\ outcome = Pending
  /\ MergeIdle /\ StoreIdle /\ WorkersIdle /\ AiIdle

CallParse ==
  /\ args.fn = "parse_ai_response"
  /\ ~outcome.done
  /\ outcome' = [done |-> TRUE, result |-> parse_ai_response(args.response)]
  /\ UNCHANGED <<args, mergeVars, storeVars, workerVars, aiVars>>

NextParse == CallParse

SpecParse == InitParse /\ [][NextParse]_vars

\* strategy (b): the text between ```json and the next ```, when both occur
FencedBlock(response) ==
  LET fj == Find(response, {"fence_json"})
      rest == IF fj = 0 THEN <<>> ELSE SubSeq(response, fj + 1, Len(response))
      close == Find(rest, IsFence)
  IN IF fj # 0 /\ close # 0 THEN json_loads(SubSeq(rest, 1, close - 1)) ELSE ParseError

\* strategy (c): the text from the first { to the last }
BraceSpan(response) ==
  LET lb == Find(response, {"lbrace"})
      rb == RFind(response, {"rbrace"})
  IN IF lb # 0 /\ rb # 0 THEN json_loads(SubSeq(response, lb, rb)) ELSE ParseError

\* C13: parse_ai_response returns what the first of the three strategies
\* that parses gives, in the order whole text, fenced json block, brace
\* span; the default result only when all three fail.
C13_FirstStrategyThatParses ==
  outcome.done =>
    outcome.result =
      (IF json_loads(args.response).ok THEN json_loads(args.response)
       ELSE IF FencedBlock(args.response).ok THEN FencedBlock(args.response)
       ELSE IF BraceSpan(args.response).ok THEN BraceSpan(args.response)
       ELSE Parsed("object", DefaultResult))

----------------------------------------------------------------------------
(* Specification SpecHeuristic: _heuristic_classify on repositories whose *)
(* description is made of up to MaxWords phrases.                         *)

\* the most phrases in a description
MaxWords == 2

HeuristicWords ==
  { <<"R", "e", "a", "c", "t">>,
    <<"A", "P", "I", " ", "s", "e", "r", "v", "e", "r">>,
    <<"G", "a", "m", "e">>,
    <<"a", "w", "e", "s", "o", "m", "e">>,
    <<"L", "i", "n", "u", "x">>,
    <<"m", "y", " ", "w", "e", "b">>,
    <<"C", "r", "y", "p", "t", "o">>,
    <<"n", "o", "t", "e", "s">> }

HeuristicLanguages ==
  { None,
    <<"P", "y", "t", "h", "o", "n">>,
    <<"A", "p", "p", "l", "e", "S", "c", "r", "i", "p", "t">>,
    <<"S", "w", "i", "f", "t">> }

HeuristicTopics ==
  { <<>>,
    <<<<"D", "o", "c", "k", "e", "r">>>>,
    <<<<"I", "o", "T">>, <<"M", "L">>>> }

\* descriptions: None, or phrases joined by blanks
HeuristicDescriptions ==
  {None} \cup {Join(<<" ">>, s) : s \in SeqsUpTo(HeuristicWords, MaxWords)}

InitHeuristic ==
  /\ args \in {[fn |-> "_heuristic_classify",
                repo_data |-> RepoData(7, <<"o", "/", "r">>, d, l, t)] :
                 d \in HeuristicDescriptions, l \in HeuristicLanguages,
                 t \in HeuristicTopics}
  /\ outcome = Pending
  /\ MergeIdle /\ StoreIdle /\ WorkersIdle /\ AiIdle

CallHeuristic ==
  /\ args.fn = "_heuristic_classify"
  /\ ~outcome.done
  /\ outcome' = [done |-> TRUE, result |-> _heuristic_classify(args.repo_data)]
  /\ UNCHANGED <<args, mergeVars, storeVars, workerVars, aiVars>>

NextHeuristic == CallHeuristic

SpecHeuristic == InitHeuristic /\ [][NextHeuristic]_vars

\* the lower-cased text description + language + topics of the call
TextOf(repo_data) ==
  Lower((IF repo_data.description = None THEN <<>> ELSE repo_data.description)
        \o <<" ">> \o (IF repo_data.language = None THEN <<>> ELSE repo_data.language)
        \o <<" ">> \o Join(<<" ">>, repo_data.topics))

\* the table's entry r has a keyword that occurs in the text
Matches(r, text) ==
  \E k \in DOMAIN HeuristicRules[r].keywords : Contains(HeuristicRules[r].keywords[k], text)

\* C14: the heuristic classifier returns the category of the first entry of
\* its table that has a keyword occurring in the lower-cased text
\* description + language + topics, the default category when no entry has
\* one, and always one of the configured categories.
C14_FirstMatchingCategory ==
  outcome.done =>
    LET text == TextOf(args.repo_data)
    IN /\ \/ \E r \in DOMAIN HeuristicRules :
                /\ Matches(r, text)
                /\ \A q \in 1..(r - 1) : ~Matches(q, text)
                /\ outcome.result = HeuristicRules[r].category
          \/ /\ \A r \in DOMAIN HeuristicRules : ~Matches(r, text)
             /\ outcome.result = CatOther
       /\ outcome.result \in Range(CONFIG_categories)

\* two entries of the table match, and the earlier one decides
C14_Witness ==
  /\ outcome.done
  /\ Matches(8, TextOf(args.repo_data))
  /\ Matches(11, TextOf(args.repo_data))
  /\ \A q \in 1..7 : ~Matches(q, TextOf(args.repo_data))
  /\ outcome.result = HeuristicRules[8].category
  /\ outcome.result # HeuristicRules[11].category

----------------------------------------------------------------------------
(* fetch_stars.py: GitHubStarFetcher                                      *)

\* what session.get gives: an answer with a status and, where GitHub sends
\* it, X-RateLimit-Remaining (NoHeader when absent), or an exception
NoHeader == -1

Response(kind, status_code, remaining) ==
  [kind |-> kind, status_code |-> status_code, remaining |-> remaining]

Ok == Response("status", 200, NoHeader)

\* _make_request's None
NoResponse == Response("none", 0, NoHeader)

\* the for loop of _make_request from the given attempt on; responses[i]
\* is what the i-th session.get gives
RECURSIVE _make_request_retry_all(_, _, _)
_make_request_retry_all(responses, retries, attempt) ==
  IF attempt > retries THEN [response |-> NoResponse, requests |-> attempt]
  ELSE LET response == responses[attempt + 1]
       IN IF response.kind = "status" /\ response.status_code = 200
            THEN [response |-> response, requests |-> attempt + 1]
            ELSE _make_request_retry_all(responses, retries, attempt + 1)

RECURSIVE _make_request_loop(_, _, _)
_make_request_loop(responses, retries, attempt) ==
  IF attempt > retries THEN [response |-> NoResponse, requests |-> attempt]
  ELSE LET response == responses[attempt + 1]
       IN IF response.kind # "status"
            THEN _make_request_loop(responses, retries, attempt + 1)
          ELSE IF response.status_code = 200
            THEN [response |-> response, requests |-> attempt + 1]
          ELSE IF response.status_code = 403
            THEN IF response.remaining # NoHeader /\ response.remaining = 0
                   THEN _make_request_loop(responses, retries, attempt + 1)
                   ELSE [response |-> NoResponse, requests |-> attempt + 1]
          ELSE IF response.status_code = 404
            THEN [response |-> NoResponse, requests |-> attempt + 1]
          ELSE _make_request_loop(responses, retries, attempt + 1)

_make_request(responses, retries) == _make_request_loop(responses, retries, 0)

\* per_page of fetch_starred_repos (100 in the source, scaled)
per_page == 2

Min(a, b) == IF a <= b THEN a ELSE b

\* GET /users/<name>/starred?page&per_page on a star list
PageOf(stars, page, size) ==
  LET first == (page - 1) * size + 1
      last == Min(page * size, Len(stars))
  IN IF first > last THEN <<>> ELSE [i \in 1..(last - first + 1) |-> stars[first + i - 1]]

\* what the i-th session.get of a page request gives: the fault, then 200
PageResponses(fault, retries) ==
  [i \in 1..(retries + 1) |-> IF i <= Len(fault) THEN fault[i] ELSE Ok]

\* the while loop of fetch_starred_repos; log holds, per page request, its
\* params and the items of the page it got (failed when _make_request
\* returned None); the fault strikes the fail_at-th page request
RECURSIVE fetch_loop(_, _, _, _, _, _, _, _, _)
fetch_loop(stars, max_repos, since_param, retries, fail_at, fault, repos, page, log) ==
  IF Len(repos) >= max_repos THEN [repos |-> repos, log |-> log, raised |-> FALSE]
  ELSE
    LET params == [page |-> page, per_page |-> Min(per_page, max_repos - Len(repos)),
                   since |-> since_param]
        r == _make_request(PageResponses(IF Len(log) + 1 = fail_at THEN fault ELSE <<>>,
                                         retries), retries)
        page_repos == PageOf(stars, params.page, params.per_page)
        taken == Min(Len(page_repos), max_repos - Len(repos))
    IN IF r.response = NoResponse
         THEN [repos |-> repos, raised |-> FALSE,
               log |-> Append(log, [params |-> params, failed |-> TRUE, items |-> <<>>,
                                    requests |-> r.requests])]
       ELSE IF page_repos = <<>>
         THEN [repos |-> repos, raised |-> FALSE,
               log |-> Append(log, [params |-> params, failed |-> FALSE, items |-> <<>>,
                                    requests |-> r.requests])]
       ELSE fetch_loop(stars, max_repos, since_param, retries, fail_at, fault,
                       repos \o [i \in 1..taken |-> _process_repo_data(page_repos[i])],
                       page + 1,
                       Append(log, [params |-> params, failed |-> FALSE,
                                    items |-> page_repos, requests |-> r.requests]))

\* a fetch that gives up everything when a page request fails
fetch_starred_repos_all_or_nothing(stars, max_repos, since_param, retries, fail_at, fault) ==
  LET r == fetch_loop(stars, max_repos, since_param, retries, fail_at, fault, <<>>, 1, <<>>)
  IN IF \E k \in DOMAIN r.log : r.log[k].failed THEN [r EXCEPT !.repos = <<>>] ELSE r

\* fetch_starred_repos; max_repos and since_param are what the mode selects
fetch_starred_repos(stars, max_repos, since_param, retries, fail_at, fault) ==
  fetch_loop(stars, max_repos, since_param, retries, fail_at, fault, <<>>, 1, <<>>)

----------------------------------------------------------------------------
(* Specification SpecFetch: one _make_request on any sequence of answers, *)
(* and one fetch_starred_repos on a star list, with a fault at one page   *)
(* request.                                                               *)

\* the longest star list
MaxStars == 5

\* the largest max_full_fetch / max_incremental_fetch
MaxLimit == 5

\* the largest github.max_retries
MaxFetchRetries == 2

\* the page request a fault may strike
MaxFailAt == 3

RateLimited == Response("status", 403, 0)

Forbidden == Response("status", 403, NoHeader)

FetchResponses ==
  { Ok, Response("status", 500, NoHeader), Response("status", 404, NoHeader),
    RateLimited, Forbidden, Response("status", 403, 5),
    Response("timeout", 0, NoHeader), Response("connerr", 0, NoHeader) }

\* the star list in API order: the most recently starred first
StarList(n) == [i \in 1..n |-> [id |-> i, stargazers_count |-> 10 * i]]

\* what may go wrong at a page request: nothing lasting (one 500, one rate
\* limit), a 404, a plain 403, or timeouts until the attempts are used up
PageFaults(retries) ==
  { <<Response("status", 500, NoHeader)>>, <<RateLimited>>,
    <<Response("status", 404, NoHeader)>>, <<Forbidden>>,
    [i \in 1..(retries + 1) |-> Response("timeout", 0, NoHeader)] }

\* the timestamp of the store's metadata
LastFetchTime == <<"t", "0">>

FetchArgs(n, max_repos, mode, known_from, fail_at, fault) ==
  [fn |-> "fetch_starred_repos", stars |-> StarList(n), max_repos |-> max_repos,
   mode |-> mode, known |-> known_from..n,
   since_param |-> IF mode = "full" \/ known_from > n THEN None ELSE LastFetchTime,
   retries |-> MaxFetchRetries, fail_at |-> fail_at, fault |-> fault]

InitFetch ==
  /\ args \in
       UNION {{[fn |-> "_make_request", retries |-> n, responses |-> responses] :
                 responses \in [1..(n + 2) -> FetchResponses]} : n \in 0..MaxFetchRetries}
       \cup {FetchArgs(n, max_repos, "full", n + 1, 0, <<>>) :
               n \in 0..MaxStars, max_repos \in 1..MaxLimit}
       \cup {FetchArgs(n, max_repos, "full", n + 1, fail_at, fault) :
               n \in 0..MaxStars, max_repos \in 1..MaxLimit, fail_at \in 1..MaxFailAt,
               fault \in PageFaults(MaxFetchRetries)}
       \cup UNION {{FetchArgs(n, max_repos, "incremental", known_from, 0, <<>>) :
                      known_from \in 1..(n + 1), max_repos \in 1..MaxLimit} : n \in 0..MaxStars}
       \cup UNION {{FetchArgs(n, max_repos, "incremental", known_from, fail_at, fault) :
                      known_from \in 1..(n + 1), max_repos \in 1..MaxLimit,
                      fail_at \in 1..MaxFailAt, fault \in PageFaults(MaxFetchRetries)} :
                    n \in 0..MaxStars}
  /\ outcome = Pending
  /\ MergeIdle /\ StoreIdle /\ WorkersIdle /\ AiIdle

CallMakeRequest ==
  /\ args.fn = "_make_request"
  /\ ~outcome.done
  /\ LET r == _make_request(args.responses, args.retries)
     IN outcome' = [done |-> TRUE, response |-> r.response, requests |-> r.requests,
                    raised |-> FALSE]
  /\ UNCHANGED <<args, mergeVars, storeVars, workerVars, aiVars>>

CallFetchStarredRepos ==
  /\ args.fn = "fetch_starred_repos"
  /\ ~outcome.done
  /\ LET r == fetch_starred_repos(args.stars, args.max_repos, args.since_param,
                                  args.retries, args.fail_at, args.fault)
     IN outcome' = [done |-> TRUE, repos |-> r.repos, log |-> r.log, raised |-> r.raised]
  /\ UNCHANGED <<args, mergeVars, storeVars, workerVars, aiVars>>

NextFetch == CallMakeRequest \/ CallFetchStarredRepos

SpecFetch == InitFetch /\ [][NextFetch]_vars

\* fetch_starred_repos has returned
Fetched == args.fn = "fetch_starred_repos" /\ outcome.done

\* the ids of records, in order
IdsOf(repos) == [i \in DOMAIN repos |-> repos[i].id]

\* C15: paging through the API with no failing request, the fetch returns
\* the first min(N, max_repos) items of the star list in API order, each
\* once.
C15_FirstItemsEachOnce ==
  (Fetched /\ args.fail_at = 0) =>
    IdsOf(outcome.repos)
      = [i \in 1..Min(Len(args.stars), args.max_repos) |-> args.stars[i].id]

\* C16: in incremental mode no page is requested after a page that held an
\* item the store knows.
C16_StopsAtKnownItem ==
  (Fetched /\ args.mode = "incremental") =>
    \A k \in DOMAIN outcome.log :
      (\E i \in DOMAIN outcome.log[k].items : outcome.log[k].items[i].id \in args.known)
        => k = Len(outcome.log)

\* _make_request has returned
Requested == args.fn = "_make_request" /\ outcome.done

\* an answer after which _make_request must not ask again
NotRetried(response) ==
  /\ response.kind = "status"
  /\ \/ response.status_code = 404
     \/ response.status_code = 403 /\ response.remaining # 0

RECURSIVE Accumulated(_, _)
Accumulated(log, n) ==
  IF n = 0 THEN <<>> ELSE Accumulated(log, n - 1) \o IdsOf(log[n].items)

\* C18: when the request for page k fails for good, fetch_starred_repos
\* does not raise and returns the items of pages 1..k-1.
C18_PartialResult ==
  Fetched =>
    \A k \in DOMAIN outcome.log :
      outcome.log[k].failed =>
        /\ ~outcome.raised
        /\ IdsOf(outcome.repos) = Accumulated(outcome.log, k - 1)
        /\ \A j \in 1..(k - 1) : outcome.log[j].params.page = j
        /\ outcome.log[k].params.page = k

\* the third page fails after two pages of items were fetched
C18_Witness ==
  /\ Fetched
  /\ Len(outcome.log) = 3
  /\ outcome.log[3].failed
  /\ outcome.log[3].requests = args.retries + 1
  /\ Len(outcome.repos) = 2 * per_page

----------------------------------------------------------------------------
(* generate_category_docs.py: CategoryDocGenerator.  A document is the    *)
(* sequence of its lines, each a token that keeps what the change         *)
(* detection's patterns read: the texts in brackets and the numbers.      *)

Token(t, name, url, n, m) == [t |-> t, name |-> name, url |-> url, n |-> n, m |-> m]

\* a path that does not exist
NoDocument == <<Token("missing", <<>>, <<>>, 0, 0)>>

\* f"{stars:,}"
RECURSIVE FormatStars(_)
FormatStars(n) ==
  IF n < 1000 THEN Str(n)
  ELSE FormatStars(n \div 1000) \o <<",">>
         \o <<DigitChars[((n % 1000) \div 100) + 1], DigitChars[((n % 100) \div 10) + 1],
              DigitChars[(n % 10) + 1]>>

\* int(stars_str.replace(',', ''))
RECURSIVE ParseStars(_)
ParseStars(text) ==
  IF text = <<>> THEN 0
  ELSE LET c == text[Len(text)]
           rest == ParseStars(SubSeq(text, 1, Len(text) - 1))
       IN IF c = "," THEN rest
          ELSE 10 * rest + ((CHOOSE d \in DOMAIN DigitChars : DigitChars[d] = c) - 1)

\* sorted(repos, key=stargazers_count, reverse=True): stable
RECURSIVE sorted_by_stars(_)
sorted_by_stars(repos) ==
  IF repos = <<>> THEN <<>>
  ELSE LET before == sorted_by_stars(SubSeq(repos, 1, Len(repos) - 1))
           repo == repos[Len(repos)]
           k == Cardinality({i \in DOMAIN before :
                               before[i].stargazers_count >= repo.stargazers_count})
       IN SubSeq(before, 1, k) \o <<repo>> \o SubSeq(before, k + 1, Len(before))

\* the first max_projects of a list
FirstOf(repos, max_projects) ==
  SubSeq(repos, 1, IF Len(repos) < max_projects THEN Len(repos) ELSE max_projects)

\* DataManager.get_repositories_by_category
get_repositories_by_category(repositories, category) ==
  SelectSeq(repositories, LAMBDA repo : repo.category = category /\ repo.is_classified)

\* _format_repo_entry: the heading, the lines that describe, the stars line
_format_repo_entry(repo) ==
  << Token("h3", repo.name, repo.html_url, 0, 0),
     Token("body", repo.full_name, <<>>, 0, 0),
     Token("stars", FormatStars(repo.stargazers_count), <<>>, 0, 0) >>

RECURSIVE format_entries(_)
format_entries(repos) ==
  IF repos = <<>> THEN <<>>
  ELSE _format_repo_entry(Head(repos)) \o format_entries(Tail(repos))

\* header, table of contents, entries and footer of a category document
category_document(category, all_repos, max_projects, now) ==
  LET display_repos == FirstOf(sorted_by_stars(all_repos), max_projects)
  IN << Token("total", category, <<>>, Len(all_repos), Len(display_repos)),
        Token("time", <<>>, <<>>, now, 0) >>
     \o [i \in DOMAIN display_repos |-> Token("toc", display_repos[i].name, <<>>, i, 0)]
     \o <<Token("list", <<>>, <<>>, 0, 0)>>
     \o format_entries(display_repos)
     \o << Token("footer", category, <<>>, Len(all_repos), Len(display_repos)),
           Token("time", <<>>, <<>>, now, 0) >>

\* the heading matches ### \[([^\]]+)\]\([^\)]+\)
HeadingMatches(line) ==
  /\ line.t = "h3"
  /\ line.name # <<>> /\ \A i \in DOMAIN line.name : line.name[i] # "]"
  /\ line.url # <<>> /\ \A i \in DOMAIN line.url : line.url[i] # ")"

\* repo_pattern.findall(content) from line i on: a heading that matches,
\* then as little as possible up to the next stars line
RECURSIVE repo_matches(_, _)
repo_matches(content, i) ==
  IF i > Len(content) THEN <<>>
  ELSE IF HeadingMatches(content[i])
    THEN LET after == {j \in (i + 1)..Len(content) : content[j].t = "stars"}
         IN IF after = {} THEN <<>>
            ELSE LET j == CHOOSE x \in after : \A y \in after : x <= y
                 IN <<[name |-> content[i].name, stars |-> ParseStars(content[j].name)]>>
                      \o repo_matches(content, j + 1)
  ELSE repo_matches(content, i + 1)

\* existing_repos[name] after the loop over the matches: the last one wins
ExistingStars(matches, name) ==
  matches[Max({i \in DOMAIN matches : matches[i].name = name})].stars

\* _check_document_needs_update
_check_document_needs_update(content, repos, max_projects) ==
  IF content = NoDocument THEN TRUE
  ELSE LET totals == {i \in DOMAIN content : content[i].t = "total"}
           matches == repo_matches(content, 1)
           display_repos == FirstOf(sorted_by_stars(repos), max_projects)
       IN IF totals = {} THEN TRUE
          ELSE IF content[CHOOSE x \in totals : \A y \in totals : x <= y].n # Len(repos)
            THEN TRUE
          ELSE IF Len(matches) # Min(Len(repos), max_projects) THEN TRUE
          ELSE \E i \in DOMAIN display_repos :
                 \/ \A k \in DOMAIN matches : matches[k].name # display_repos[i].name
                 \/ ExistingStars(matches, display_repos[i].name)
                      # display_repos[i].stargazers_count

\* generate_category_document: the file afterwards, whether it was written
generate_category_document(content, repositories, category, max_projects, now) ==
  LET all_repos == get_repositories_by_category(repositories, category)
  IN IF all_repos = <<>> THEN [ret |-> FALSE, wrote |-> FALSE, content |-> content]
     ELSE IF ~_check_document_needs_update(content, all_repos, max_projects)
       THEN [ret |-> TRUE, wrote |-> FALSE, content |-> content]
     ELSE [ret |-> TRUE, wrote |-> TRUE,
           content |-> category_document(category, all_repos, max_projects, now)]

\* 未知
LanguageUnknown == <<"u672a", "u77e5">>

\* a dict of counts in insertion order, as get_statistics builds them
RECURSIVE count_stats(_)
count_stats(keys) ==
  IF keys = <<>> THEN <<>>
  ELSE LET before == count_stats(SubSeq(keys, 1, Len(keys) - 1))
           key == keys[Len(keys)]
       IN IF \E i \in DOMAIN before : before[i].name = key
            THEN [i \in DOMAIN before |->
                    IF before[i].name = key
                    THEN [before[i] EXCEPT !.count = @ + 1] ELSE before[i]]
            ELSE Append(before, [name |-> key, count |-> 1])

\* sorted(items, key=count, reverse=True): stable
RECURSIVE sorted_by_count(_)
sorted_by_count(items) ==
  IF items = <<>> THEN <<>>
  ELSE LET before == sorted_by_count(SubSeq(items, 1, Len(items) - 1))
           item == items[Len(items)]
           k == Cardinality({i \in DOMAIN before : before[i].count >= item.count})
       IN SubSeq(before, 1, k) \o <<item>> \o SubSeq(before, k + 1, Len(before))

\* the most languages get_statistics keeps
TopLanguages == 10

\* DataManager.get_statistics; classification_rate in thousandths of a
\* percent
get_statistics(repositories) ==
  LET classified == SelectSeq(repositories, LAMBDA repo : repo.is_classified)
  IN [total_repositories |-> Len(repositories),
      classified_repositories |-> Len(classified),
      unclassified_repositories |-> Len(repositories) - Len(classified),
      classification_rate |->
        IF Len(repositories) > 0
        THEN (Len(classified) * 100000) \div Len(repositories) ELSE 0,
      categories |-> count_stats([i \in DOMAIN classified |-> classified[i].category]),
      languages |->
        FirstOf(sorted_by_count(count_stats(
                  [i \in DOMAIN repositories |->
                     IF repositories[i].language = None THEN LanguageUnknown
                     ELSE repositories[i].language])), TopLanguages)]

\* f"{rate:.1f}": tenths of a percent
FormatRate(rate) == (rate + 50) \div 100

\* the rows of a table of the index
Rows(t, items) == [i \in DOMAIN items |-> Token(t, items[i].name, <<>>, items[i].count, 0)]

\* the index document
index_document(stats, now) ==
  << Token("stats", <<>>, <<>>, Len(stats.categories), stats.total_repositories),
     Token("time", <<>>, <<>>, now, 0),
     Token("category_head", <<>>, <<>>, 0, 0) >>
  \o Rows("category_row", sorted_by_count(stats.categories))
  \o << Token("overview", <<>>, <<>>, stats.total_repositories, stats.classified_repositories),
        Token("rate", <<>>, <<>>, FormatRate(stats.classification_rate), 0) >>
  \o (IF stats.languages = <<>> THEN <<>>
      ELSE <<Token("language_head", <<>>, <<>>, 0, 0)>> \o Rows("language_row", stats.languages))

\* the line matches \| ([^|]+) \| (\d+) \|: a row of a table whose second
\* cell is a number, of the category table or of the language table
RowMatches(line) ==
  /\ line.t \in {"category_row", "language_row"}
  /\ line.name # <<>>

\* categories.get(category_name, 0)
CountOf(categories, name) ==
  IF \E i \in DOMAIN categories : categories[i].name = name
  THEN categories[CHOOSE i \in DOMAIN categories : categories[i].name = name].count
  ELSE 0

\* _check_index_needs_update
_check_index_needs_update(content, stats) ==
  IF content = NoDocument THEN TRUE
  ELSE LET found == {i \in DOMAIN content : content[i].t = "stats"}
           category_matches == SelectSeq(content, RowMatches)
           rates == {i \in DOMAIN content : content[i].t = "rate"}
       IN IF found = {} THEN TRUE
          ELSE LET match == content[CHOOSE x \in found : \A y \in found : x <= y]
               IN IF match.n # Len(stats.categories) \/ match.m # stats.total_repositories
                    THEN TRUE
                  ELSE IF Len(category_matches) # Len(stats.categories) THEN TRUE
                  ELSE IF \E k \in DOMAIN category_matches :
                            category_matches[k].n
                              # CountOf(stats.categories, Strip(category_matches[k].name))
                    THEN TRUE
                  ELSE \E i \in rates :
                         /\ \A j \in rates : i <= j
                         /\ LET d == content[i].n * 100 - stats.classification_rate
                            IN d > 100 \/ d < -100

\* generate_category_index: the file afterwards, whether it was written
generate_category_index(content, repositories, now) ==
  LET stats == get_statistics(repositories)
  IN IF ~_check_index_needs_update(content, stats)
       THEN [ret |-> TRUE, wrote |-> FALSE, content |-> content]
       ELSE [ret |-> TRUE, wrote |-> TRUE, content |-> index_document(stats, now)]

----------------------------------------------------------------------------
(* Specification SpecDocs: the document generator run repeatedly on a     *)
(* store that does not change, the clock advancing or not between runs.   *)

\* the most repositories in the store
MaxDocRepos == 2

\* the runs of the generator
MaxRuns == 2

DocRepo(name, owner, html_url, stars, category) ==
  [name |-> name, full_name |-> <<owner, "/">> \o name, html_url |-> html_url,
   stargazers_count |-> stars, category |-> category, is_classified |-> category # None,
   language |-> IF owner = "o" THEN <<"P", "y">> ELSE None]

DocRepos ==
  {DocRepo(name, owner, html_url, stars, category) :
     name \in {<<"a">>, <<"b">>}, owner \in {"o", "p"}, html_url \in {<<>>, <<"u">>},
     stars \in {5, 1200}, category \in {CatDevTools, CatFrontend, None}}

InitDocs ==
  /\ args \in {[fn |-> "generate_category_document", repositories |-> repositories,
                category |-> CatDevTools, max_projects |-> max_projects] :
                 repositories \in SeqsUpTo(DocRepos, MaxDocRepos),
                 max_projects \in 1..MaxDocRepos}
              \cup {[fn |-> "generate_category_index", repositories |-> repositories] :
                      repositories \in SeqsUpTo(DocRepos, MaxDocRepos)}
  /\ outcome = [done |-> FALSE, now |-> 0, content |-> NoDocument, runs |-> <<>>]
  /\ MergeIdle /\ StoreIdle /\ WorkersIdle /\ AiIdle

\* a run has ended at the time now, leaving the file as r says
AfterRun(r, now) ==
  outcome' = [done |-> TRUE, now |-> now, content |-> r.content,
              runs |-> Append(outcome.runs, r)]

GenerateCategoryDocument ==
  /\ args.fn = "generate_category_document"
  /\ Len(outcome.runs) < MaxRuns
  /\ \E dt \in 0..1 :
       AfterRun(generate_category_document(outcome.content, args.repositories, args.category,
                                           args.max_projects, outcome.now + dt),
                outcome.now + dt)
  /\ UNCHANGED <<args, mergeVars, storeVars, workerVars, aiVars>>

GenerateCategoryIndex ==
  /\ args.fn = "generate_category_index"
  /\ Len(outcome.runs) < MaxRuns
  /\ \E dt \in 0..1 :
       AfterRun(generate_category_index(outcome.content, args.repositories, outcome.now + dt),
                outcome.now + dt)
  /\ UNCHANGED <<args, mergeVars, storeVars, workerVars, aiVars>>

NextDocs == GenerateCategoryDocument \/ GenerateCategoryIndex

SpecDocs == InitDocs /\ [][NextDocs]_vars

\* C19: the second of two runs of generate_category_document on unchanged
\* store data detects no change, skips the write and leaves the file as the
\* first run wrote it, whatever the store holds.
C19_SecondRunSkipsDocument ==
  (args.fn = "generate_category_document" /\ Len(outcome.runs) >= 2) =>
    /\ ~outcome.runs[2].wrote
    /\ outcome.runs[2].content = outcome.runs[1].content

\* C20: the second of two runs of generate_category_index on an unchanged
\* store that is not empty detects no change and does not write index.md.
C20_SecondRunSkipsIndex ==
  (args.fn = "generate_category_index" /\ Len(outcome.runs) >= 2
     /\ args.repositories # <<>>) =>
    /\ ~outcome.runs[2].wrote
    /\ outcome.runs[2].content = outcome.runs[1].content

----------------------------------------------------------------------------
(* Specification SpecRegenerate: generate_category_document on a store,   *)
(* then again after the store has changed.                                *)

\* the repositories of the category, before and after the change
ChangedRepos ==
  {DocRepo(name, owner, <<"u">>, stars, CatDevTools) :
     name \in {<<"a">>, <<"b">>}, owner \in {"o", "p"}, stars \in {5, 1200}}

InitRegenerate ==
  /\ args \in {[fn |-> "regenerate", before |-> before, repositories |-> after,
                category |-> CatDevTools, max_projects |-> max_projects] :
                 before \in SeqsUpTo(ChangedRepos, MaxDocRepos),
                 after \in SeqsUpTo(ChangedRepos, MaxDocRepos) \ {<<>>},
                 max_projects \in 1..MaxDocRepos}
  /\ outcome = [done |-> FALSE, now |-> 0, content |-> NoDocument, runs |-> <<>>]
  /\ MergeIdle /\ StoreIdle /\ WorkersIdle /\ AiIdle

\* the run on the store as it was
GenerateBefore ==
  /\ args.fn = "regenerate"
  /\ Len(outcome.runs) = 0
  /\ AfterRun(generate_category_document(outcome.content, args.before, args.category,
                                         args.max_projects, outcome.now), outcome.now)
  /\ UNCHANGED <<args, mergeVars, storeVars, workerVars, aiVars>>

\* the run on the store as it is now
GenerateAfter ==
  /\ args.fn = "regenerate"
  /\ Len(outcome.runs) = 1
  /\ AfterRun(generate_category_document(outcome.content, args.repositories, args.category,
                                         args.max_projects, outcome.now + 1), outcome.now + 1)
  /\ UNCHANGED <<args, mergeVars, storeVars, workerVars, aiVars>>

NextRegenerate == GenerateBefore \/ GenerateAfter

SpecRegenerate == InitRegenerate /\ [][NextRegenerate]_vars

\* the entries of a document: repository and stars, in order
RECURSIVE Listed(_, _)
Listed(content, i) ==
  IF i + 2 > Len(content) THEN <<>>
  ELSE IF content[i].t = "h3"
    THEN <<[full_name |-> content[i + 1].name, stars |-> ParseStars(content[i + 2].name)]>>
           \o Listed(content, i + 3)
  ELSE Listed(content, i + 1)

\* C21: after generate_category_document has returned True, written or
\* skipped, the document lists max_projects repositories of the category
\* as the store has them now, in non-increasing star order, and no
\* repository left out has more stars than one that is shown.
C21_DocumentListsCurrentTop ==
  (args.fn = "regenerate" /\ Len(outcome.runs) = 2 /\ outcome.runs[2].ret) =>
    LET listed == Listed(outcome.content, 1)
        all_repos == get_repositories_by_category(args.repositories, args.category)
    IN /\ Len(listed) = Min(Len(all_repos), args.max_projects)
       /\ \A i, j \in DOMAIN listed : i < j => listed[i].stars >= listed[j].stars
       /\ \E f \in [DOMAIN listed -> DOMAIN all_repos] :
            /\ \A i, j \in DOMAIN listed : i # j => f[i] # f[j]
            /\ \A i \in DOMAIN listed :
                 /\ all_repos[f[i]].full_name = listed[i].full_name
                 /\ all_repos[f[i]].stargazers_count = listed[i].stars
            /\ \A k \in DOMAIN all_repos : \A i \in DOMAIN listed :
                 (\A x \in DOMAIN listed : f[x] # k)
                   => all_repos[k].stargazers_count <= listed[i].stars

----------------------------------------------------------------------------
(* The output directory: generate_all_category_documents and              *)
(* clean_old_documents.  A directory maps file names to contents,         *)
(* NoDocument for a name that is not there.                               *)

\* str.replace of one character by another
Replace(text, old, new) == [i \in DOMAIN text |-> IF text[i] = old THEN new ELSE text[i]]

DotMd == <<".", "m", "d">>

\* f"{category.replace('/', '_')}.md"
FilenameOf(category) == Replace(category, "/", "_") \o DotMd

IndexMd == <<"i", "n", "d", "e", "x">> \o DotMd

\* filename.endswith('.md')
EndsWithMd(filename) ==
  Len(filename) >= 3 /\ SubSeq(filename, Len(filename) - 2, Len(filename)) = DotMd

\* filename[:-3].replace('_', '/')
CategoryOfFilename(filename) == Replace(SubSeq(filename, 1, Len(filename) - 3), "_", "/")

\* the keys of stats['categories'], in order
CategoriesOf(repositories) ==
  LET categories == get_statistics(repositories).categories
  IN [i \in DOMAIN categories |-> categories[i].name]

\* the loop of generate_all_category_documents from the i-th category on:
\* the directory afterwards and the results so far
RECURSIVE generate_all_from(_, _, _, _, _, _)
generate_all_from(dir, results, repositories, max_projects, now, i) ==
  LET categories == CategoriesOf(repositories)
  IN IF i > Len(categories) THEN [dir |-> dir, results |-> results]
     ELSE LET filename == FilenameOf(categories[i])
              r == generate_category_document(dir[filename], repositories, categories[i],
                                              max_projects, now)
          IN generate_all_from([dir EXCEPT ![filename] = r.content],
                               Append(results, [category |-> categories[i], ret |-> r.ret,
                                                wrote |-> r.wrote]),
                               repositories, max_projects, now, i + 1)

generate_all_category_documents(dir, repositories, max_projects, now) ==
  generate_all_from(dir, <<>>, repositories, max_projects, now, 1)

\* clean_old_documents
clean_old_documents(dir, repositories) ==
  [filename \in DOMAIN dir |->
     IF /\ dir[filename] # NoDocument
        /\ EndsWithMd(filename) /\ filename # IndexMd
        /\ CategoryOfFilename(filename) \notin Range(CategoriesOf(repositories))
     THEN NoDocument ELSE dir[filename]]

----------------------------------------------------------------------------
(* Specification SpecDirectory: the output directory under                *)
(* generate_all_category_documents and clean_old_documents, in any order. *)

\* the most repositories in the store
MaxDirRepos == 3

\* the operations on the directory
MaxDirSteps == 2

\* Web_API and Web/API: names a classifier's answer may put in the store
CatWebUnderscore == <<"W", "e", "b", "_", "A", "P", "I">>

CatWebSlash == <<"W", "e", "b", "/", "A", "P", "I">>

\* 区块链/Web3
CatBlockchain == CONFIG_categories[11]

DirCategories == {CatDevTools, CatBlockchain, CatWebUnderscore, CatWebSlash}

DirRepos ==
  {DocRepo(<<"a">>, "o", <<"u">>, 5, category) : category \in DirCategories \cup {None}}

NotesTxt == <<"n", ".", "t", "x", "t">>

DirFiles == {FilenameOf(category) : category \in DirCategories} \cup {IndexMd, NotesTxt}

\* what an earlier run left in a file
StaleDocument == <<Token("stale", <<>>, <<>>, 0, 0)>>

InitDirectory ==
  /\ args \in {[fn |-> "directory", repositories |-> repositories,
                max_projects |-> MaxDirRepos,
                dir |-> [f \in DirFiles |-> IF f \in present THEN StaleDocument
                                           ELSE NoDocument]] :
                 repositories \in SeqsUpTo(DirRepos, MaxDirRepos),
                 present \in SUBSET DirFiles}
  /\ outcome = [done |-> FALSE, dir |-> args.dir, steps |-> <<>>]
  /\ MergeIdle /\ StoreIdle /\ WorkersIdle /\ AiIdle

\* an operation has left the directory as dir
AfterStep(op, dir) ==
  outcome' = [done |-> TRUE, dir |-> dir,
              steps |-> Append(outcome.steps, [op |-> op, before |-> outcome.dir,
                                               after |-> dir])]

GenerateAllCategoryDocuments ==
  /\ args.fn = "directory"
  /\ Len(outcome.steps) < MaxDirSteps
  /\ AfterStep("generate_all_category_documents",
               generate_all_category_documents(outcome.dir, args.repositories,
                                               args.max_projects,
                                               Len(outcome.steps) + 1).dir)
  /\ UNCHANGED <<args, mergeVars, storeVars, workerVars, aiVars>>

CleanOldDocuments ==
  /\ args.fn = "directory"
  /\ Len(outcome.steps) < MaxDirSteps
  /\ AfterStep("clean_old_documents", clean_old_documents(outcome.dir, args.repositories))
  /\ UNCHANGED <<args, mergeVars, storeVars, workerVars, aiVars>>

NextDirectory == GenerateAllCategoryDocuments \/ CleanOldDocuments

SpecDirectory == InitDirectory /\ [][NextDirectory]_vars

\* the category documents of a directory
DocumentsIn(dir) ==
  {f \in DOMAIN dir : dir[f] # NoDocument /\ EndsWithMd(f) /\ f # IndexMd}

\* the categories of the classified records of the store
CurrentCategories == Range(CategoriesOf(args.repositories))

\* C22: clean_old_documents deletes a category document exactly when no
\* classified record of the store has its category; a document of a
\* category that has records stays, whatever the category's name.
C22_CleanDeletesObsoleteOnly ==
  args.fn = "directory" =>
    \A s \in DOMAIN outcome.steps :
      outcome.steps[s].op = "clean_old_documents" =>
        \A f \in DocumentsIn(outcome.steps[s].before) :
          (outcome.steps[s].after[f] = NoDocument)
            <=> ~(\E category \in CurrentCategories : FilenameOf(category) = f)

\* C23: generating all category documents into a directory without
\* documents leaves as many document files as the classified records have
\* categories, each category with a file of its own.
C23_OneFilePerCategory ==
  (/\ args.fn = "directory"
   /\ Len(outcome.steps) >= 1
   /\ outcome.steps[1].op = "generate_all_category_documents"
   /\ DocumentsIn(args.dir) = {}) =>
    /\ Cardinality(DocumentsIn(outcome.steps[1].after)) = Cardinality(CurrentCategories)
    /\ \A c1, c2 \in CurrentCategories : c1 # c2 => FilenameOf(c1) # FilenameOf(c2)
    /\ \A category \in CurrentCategories :
         outcome.steps[1].after[FilenameOf(category)] # NoDocument

----------------------------------------------------------------------------
(* update_readme.py: ReadmeUpdater.  The README is a sequence of tokens:  *)
(* the two marker comments, line ends and other text.                     *)

\* <!-- GITHUB_STAR_MANAGER_START --> and <!-- GITHUB_STAR_MANAGER_END -->
start_marker == "START"

end_marker == "END"

\* _find_update_section: the positions of the first and the last token of
\* the section, <<0, 0>> when it is not found
_find_update_section(content) ==
  LET start_pos == Find(content, {start_marker})
      end_pos == Find(content, {end_marker})
  IN IF start_pos # 0 /\ end_pos # 0 /\ end_pos > start_pos
     THEN <<start_pos, end_pos>> ELSE <<0, 0>>

\* update_content: the markers around the comment and the statistics
UpdateContent(stats_section) ==
  <<start_marker, "nl", "comment", "nl", "nl">> \o stats_section \o <<end_marker>>

\* update_readme: the README afterwards
update_readme(current_content, stats_section) ==
  LET section == _find_update_section(current_content)
  IN IF section # <<0, 0>>
       THEN SubSeq(current_content, 1, section[1] - 1)
              \o UpdateContent(stats_section)
              \o SubSeq(current_content, section[2] + 1, Len(current_content))
       ELSE (IF current_content = <<>> \/ current_content[Len(current_content)] # "nl"
               THEN Append(current_content, "nl") ELSE current_content)
              \o <<"nl">> \o UpdateContent(stats_section) \o <<"nl">>

----------------------------------------------------------------------------
(* Specification SpecReadme: update_readme again and again on a README,   *)
(* the statistics changing or not.                                        *)

\* the longest README at the start
MaxReadme == 4

\* the updates in a row
MaxUpdates == 3

ReadmeTokens == {start_marker, end_marker, "text", "nl"}

\* the statistics sections of two states of the store
StatsSections == {<<"stats1", "nl">>, <<"stats2", "nl">>}

InitReadme ==
  /\ args \in {[fn |-> "update_readme", content |-> content] :
                 content \in SeqsUpTo(ReadmeTokens, MaxReadme)}
  /\ outcome = [done |-> FALSE, content |-> args.content, updates |-> <<>>]
  /\ MergeIdle /\ StoreIdle /\ WorkersIdle /\ AiIdle

UpdateReadme ==
  /\ args.fn = "update_readme"
  /\ Len(outcome.updates) < MaxUpdates
  /\ \E stats_section \in StatsSections :
       LET new_content == update_readme(outcome.content, stats_section)
       IN outcome' = [done |-> TRUE, content |-> new_content,
                      updates |-> Append(outcome.updates,
                                         [before |-> outcome.content, after |-> new_content,
                                          stats_section |-> stats_section])]
  /\ UNCHANGED <<args, mergeVars, storeVars, workerVars, aiVars>>

NextReadme == UpdateReadme

SpecReadme == InitReadme /\ [][NextReadme]_vars

\* the positions of a token in a text
Positions(text, token) == {i \in DOMAIN text : text[i] = token}

\* a start marker with an end marker after it
HasMarkerPair(text) ==
  \E i \in Positions(text, start_marker) : \E j \in Positions(text, end_marker) : i < j

\* C24: update_readme changes only the region from the start marker
\* through the end marker, the text before and after it staying as it
\* was; without a marker pair the previous content stays as a prefix and
\* one marked block is appended at the end.
C24_OnlyMarkedRegionChanges ==
  args.fn = "update_readme" =>
    \A k \in DOMAIN outcome.updates :
      LET u == outcome.updates[k]
          block == UpdateContent(u.stats_section)
      IN IF HasMarkerPair(u.before)
         THEN \E i \in Positions(u.before, start_marker) :
                \E j \in Positions(u.before, end_marker) :
                  /\ i < j
                  /\ u.after = SubSeq(u.before, 1, i - 1) \o block
                                 \o SubSeq(u.before, j + 1, Len(u.before))
         ELSE /\ Len(u.after) >= Len(u.before)
              /\ SubSeq(u.after, 1, Len(u.before)) = u.before
              /\ \E n \in 1..2 :
                   u.after = u.before \o [x \in 1..n |-> "nl"] \o block \o <<"nl">>

\* C30: from the first update on, every update_readme replaces the block:
\* the number of marked blocks and the text outside them stay as the first
\* update left them.
C30_BlocksDoNotAccumulate ==
  args.fn = "update_readme" =>
    \A k \in DOMAIN outcome.updates :
      k >= 2 =>
        /\ Cardinality(Positions(outcome.updates[k].after, start_marker))
             = Cardinality(Positions(outcome.updates[1].after, start_marker))
        /\ Cardinality(Positions(outcome.updates[k].after, end_marker))
             = Cardinality(Positions(outcome.updates[1].after, end_marker))
        /\ Len(outcome.updates[k].after) = Len(outcome.updates[1].after)

----------------------------------------------------------------------------
(* Specification SpecBatch: classify_repos.  The pool starts the tasks in *)
(* the order they were submitted, at most max_concurrent at a time; they  *)
(* finish in any order, and the loop over as_completed takes the finished *)
(* futures as they come.                                                  *)

\* the longest list of repositories
MaxBatch == 3

\* what the endpoint does for one repository: an object with a category,
\* an object whose category is null, a scalar, a timeout
BatchScripts ==
  { <<Http("ok", 200, <<"lbrace", "valid", "rbrace">>)>>,
    <<Http("ok", 200, <<"lbrace", "nullcat", "rbrace">>)>>,
    <<Http("ok", 200, <<"scalar">>)>>,
    <<Http("timeout", 0, <<>>)>> }

\* what the loop appends for a future: the worker's result, or the default
\* values when future.result() raises
CollectedResult(i, responses) ==
  LET r == process_repo(responses)
  IN [id |-> i, raised |-> r.raised,
      category |-> IF r.raised THEN CatOther ELSE r.category]

InitBatch ==
  /\ args \in {[fn |-> "classify_repos", repos |-> repos] :
                 repos \in SeqsUpTo(BatchScripts, MaxBatch)}
  /\ outcome = [done |-> FALSE, started |-> {}, finished |-> {},
                classified_repos |-> <<>>]
  /\ MergeIdle /\ StoreIdle /\ WorkersIdle /\ AiIdle

\* the futures the loop has taken
Collected == {outcome.classified_repos[k].id : k \in DOMAIN outcome.classified_repos}

\* a free thread of the pool takes the next task
StartTask ==
  /\ args.fn = "classify_repos"
  /\ ~outcome.done
  /\ Cardinality(outcome.started \ outcome.finished) < max_concurrent
  /\ Cardinality(outcome.started) < Len(args.repos)
  /\ outcome' = [outcome EXCEPT !.started = @ \cup {Cardinality(outcome.started) + 1}]
  /\ UNCHANGED <<args, mergeVars, storeVars, workerVars, aiVars>>

\* process_repo returns or raises in a thread
FinishTask ==
  /\ args.fn = "classify_repos"
  /\ ~outcome.done
  /\ \E i \in outcome.started \ outcome.finished :
       outcome' = [outcome EXCEPT !.finished = @ \cup {i}]
  /\ UNCHANGED <<args, mergeVars, storeVars, workerVars, aiVars>>

\* as_completed yields a finished future and the loop appends its result
CollectResult ==
  /\ args.fn = "classify_repos"
  /\ ~outcome.done
  /\ \E i \in outcome.finished \ Collected :
       outcome' = [outcome EXCEPT !.classified_repos =
                                    Append(@, CollectedResult(i, args.repos[i]))]
  /\ UNCHANGED <<args, mergeVars, storeVars, workerVars, aiVars>>

\* every future was taken: return classified_repos
ReturnClassified ==
  /\ args.fn = "classify_repos"
  /\ ~outcome.done
  /\ Collected = DOMAIN args.repos
  /\ outcome' = [outcome EXCEPT !.done = TRUE]
  /\ UNCHANGED <<args, mergeVars, storeVars, workerVars, aiVars>>

NextBatch == StartTask \/ FinishTask \/ CollectResult \/ ReturnClassified

SpecBatch == InitBatch /\ [][NextBatch]_vars

\* C25: the list classify_repos returns is in the input order of the
\* repositories, whatever order the workers finish in.
C25_ReturnedInInputOrder ==
  (args.fn = "classify_repos" /\ outcome.done) =>
    \A k \in DOMAIN outcome.classified_repos : outcome.classified_repos[k].id = k

\* C26: whichever workers fail or raise, classify_repos returns one result
\* for every input repository, none missing and none twice, each with a
\* category that is not null.
C26_OneResultEachWithCategory ==
  (args.fn = "classify_repos" /\ outcome.done) =>
    /\ Len(outcome.classified_repos) = Len(args.repos)
    /\ \A i \in DOMAIN args.repos :
         Cardinality({k \in DOMAIN outcome.classified_repos :
                        outcome.classified_repos[k].id = i}) = 1
    /\ \A k \in DOMAIN outcome.classified_repos :
         outcome.classified_repos[k].category # None

\* ---------------------------------------------------------------------
\* config.py: deep_merge, on a heap of dict objects. A dict is a function
\* from keys to cells; a cell holds a scalar or the address of a dict.
\* ---------------------------------------------------------------------

Scalar(v) == [kind |-> "scalar", v |-> v]

DictAt(a) == [kind |-> "dict", v |-> a]

\* the keys of a dict, one after the other
RECURSIVE items(_)
items(K) ==
  IF K = {} THEN <<>>
  ELSE LET k == CHOOSE x \in K : TRUE IN <<k>> \o items(K \ {k})

\* d[key] = value
SetItem(d, key, value) ==
  [k \in DOMAIN d \cup {key} |-> IF k = key THEN value ELSE d[k]]

\* {**base, **override}: the sections of the override replace the base's
deep_merge_shallow(heap, base, override) ==
  [heap |-> Append(heap, [k \in DOMAIN heap[base] \cup DOMAIN heap[override] |->
                            IF k \in DOMAIN heap[override] THEN heap[override][k]
                            ELSE heap[base][k]]),
   ret |-> Len(heap) + 1]

RECURSIVE deep_merge_items(_, _, _, _)
RECURSIVE deep_merge(_, _, _)

\* for key, value in override.items(): ...
deep_merge_items(heap, result, override, keys) ==
  IF keys = <<>> THEN heap
  ELSE LET key == Head(keys)
           value == heap[override][key]
       IN IF /\ key \in DOMAIN heap[result]
             /\ heap[result][key].kind = "dict"
             /\ value.kind = "dict"
          THEN LET sub == deep_merge(heap, heap[result][key].v, value.v)
               IN deep_merge_items(
                    [sub.heap EXCEPT ![result] = SetItem(@, key, DictAt(sub.ret))],
                    result, override, Tail(keys))
          ELSE deep_merge_items(
                 [heap EXCEPT ![result] = SetItem(@, key, value)],
                 result, override, Tail(keys))

\* result = base.copy(); ...; return result
deep_merge(heap, base, override) ==
  LET copied == Append(heap, heap[base])
      result == Len(copied)
  IN [heap |-> deep_merge_items(copied, result, override,
                                items(DOMAIN heap[override])),
      ret |-> result]

\* SpecConfig: deep_merge on every pair of configurations of two levels.

MaxConfigValue == 2

SectionKeys == {"github", "new_section"}

SettingKeys == {"per_page", "test_key"}

\* a value of a configuration: a scalar, or a section with its settings
Value(v) == [kind |-> "scalar", v |-> v, d |-> <<>>]

Section(d) == [kind |-> "dict", v |-> 0, d |-> d]

ScalarValues == {Value(v) : v \in 1..MaxConfigValue}

Sections == UNION {[K -> ScalarValues] : K \in SUBSET SettingKeys}

ConfigValues == ScalarValues \cup {Section(d) : d \in Sections}

Configs == UNION {[K -> ConfigValues] : K \in SUBSET SectionKeys}

\* the objects of a configuration: its sections, then the configuration
RECURSIVE StoreItems(_, _, _, _)
StoreItems(heap, d, keys, top) ==
  IF keys = <<>> THEN Append(heap, top)
  ELSE LET key == Head(keys)
       IN IF d[key].kind = "dict"
          THEN StoreItems(Append(heap, [j \in DOMAIN d[key].d |-> Scalar(d[key].d[j].v)]),
                          d, Tail(keys), SetItem(top, key, DictAt(Len(heap) + 1)))
          ELSE StoreItems(heap, d, Tail(keys), SetItem(top, key, Scalar(d[key].v)))

StoreConfig(heap, d) == StoreItems(heap, d, items(DOMAIN d), <<>>)

\* the configuration whose top-level dict is at address a
LoadConfig(heap, a) ==
  [k \in DOMAIN heap[a] |->
     IF heap[a][k].kind = "dict"
     THEN Section([j \in DOMAIN heap[heap[a][k].v] |-> Value(heap[heap[a][k].v][j].v)])
     ELSE Value(heap[a][k].v)]

InitConfig ==
  /\ args \in {[fn |-> "deep_merge", base |-> b, override |-> o] :
                 b \in Configs, o \in Configs}
  /\ outcome = [done |-> FALSE]
  /\ MergeIdle /\ StoreIdle /\ WorkersIdle /\ AiIdle

CallDeepMerge ==
  /\ args.fn = "deep_merge"
  /\ ~outcome.done
  /\ LET h1 == StoreConfig(<<>>, args.base)
         base == Len(h1)
         h2 == StoreConfig(h1, args.override)
         override == Len(h2)
         r == deep_merge(h2, base, override)
     IN outcome' = [done |-> TRUE,
                    result |-> LoadConfig(r.heap, r.ret),
                    base |-> LoadConfig(r.heap, base),
                    override |-> LoadConfig(r.heap, override)]
  /\ UNCHANGED <<args, mergeVars, storeVars, workerVars, aiVars>>

NextConfig == CallDeepMerge

SpecConfig == InitConfig /\ [][NextConfig]_vars

\* r has the override's value at every key of o, section by section, and
\* the base's value at every key found only in b
RECURSIVE Merged(_, _, _)
Merged(r, b, o) ==
  /\ DOMAIN r = DOMAIN b \cup DOMAIN o
  /\ \A k \in DOMAIN b \ DOMAIN o : r[k] = b[k]
  /\ \A k \in DOMAIN o :
       IF k \in DOMAIN b /\ b[k].kind = "dict" /\ o[k].kind = "dict"
       THEN r[k].kind = "dict" /\ Merged(r[k].d, b[k].d, o[k].d)
       ELSE r[k] = o[k]

\* C27: the merge of a base and an override has the override's value at
\* every key of the override, inside nested sections too, keeps the base's
\* value at every key found only in the base, has the sections found only
\* in the override, and leaves the base as it was.
C27_DeepMerge ==
  (args.fn = "deep_merge" /\ outcome.done) =>
    /\ Merged(outcome.result, args.base, args.override)
    /\ outcome.base = args.base

\* a section of both configurations is merged key by key, and a section of
\* the override alone is added
C27_Witness ==
  /\ args.fn = "deep_merge" /\ outcome.done
  /\ "github" \in DOMAIN args.base /\ "github" \in DOMAIN args.override
  /\ args.base["github"].kind = "dict" /\ args.override["github"].kind = "dict"
  /\ DOMAIN args.base["github"].d = SettingKeys
  /\ DOMAIN args.override["github"].d = {"per_page"}
  /\ args.base["github"].d["per_page"] # args.override["github"].d["per_page"]
  /\ "new_section" \in DOMAIN args.override \ DOMAIN args.base
  /\ outcome.result["github"].d["per_page"] = args.override["github"].d["per_page"]
  /\ outcome.result["github"].d["test_key"] = args.base["github"].d["test_key"]
  /\ outcome.result["new_section"] = args.override["new_section"]

\* ---------------------------------------------------------------------
\* update_stars.py: get_starred_repos, one action for each turn of its
\* while loop. The answer to every get_page call is the environment's.
\* ---------------------------------------------------------------------

\* starred.get_page(page), pages counted from 0
get_page(total, page) == PageOf([k \in 1..total |-> k], page + 1, per_page)

MaxStarred == 3

MaxPageRetries == 2

MaxAttempts == 5

InitStars ==
  /\ args \in {[fn |-> "get_starred_repos", total |-> t, max_repos |-> m, max_retries |-> r] :
                 t \in 0..MaxStarred, m \in 0..MaxStarred, r \in 0..MaxPageRetries}
  /\ outcome = [done |-> FALSE, repos |-> <<>>, retry_count |-> 0, page |-> 0]
  /\ MergeIdle /\ StoreIdle /\ WorkersIdle /\ AiIdle

\* the try block: get_page answers
PageFetched ==
  /\ args.fn = "get_starred_repos"
  /\ ~outcome.done
  /\ LET page_repos == get_page(args.total, outcome.page)
         repos == outcome.repos \o page_repos
     IN outcome' =
          IF page_repos = <<>> THEN [outcome EXCEPT !.done = TRUE]
          ELSE IF args.max_repos > 0 /\ Len(repos) >= args.max_repos
          THEN [outcome EXCEPT !.done = TRUE,
                               !.repos = SubSeq(repos, 1, args.max_repos)]
          ELSE [outcome EXCEPT !.repos = repos, !.page = @ + 1, !.retry_count = 0]
  /\ UNCHANGED <<args, mergeVars, storeVars, workerVars, aiVars>>

\* the except block, "API rate limit exceeded" in the message
PageRateLimited ==
  /\ args.fn = "get_starred_repos"
  /\ ~outcome.done
  /\ outcome.retry_count < MaxAttempts
  /\ outcome' = [outcome EXCEPT !.retry_count = @ + 1]
  /\ UNCHANGED <<args, mergeVars, storeVars, workerVars, aiVars>>

\* the except block, any other exception
PageFailed ==
  /\ args.fn = "get_starred_repos"
  /\ ~outcome.done
  /\ outcome.retry_count < MaxAttempts
  /\ outcome' = [outcome EXCEPT !.retry_count = @ + 1,
                                !.done = outcome.retry_count + 1 > args.max_retries]
  /\ UNCHANGED <<args, mergeVars, storeVars, workerVars, aiVars>>

NextStars == PageFetched \/ PageRateLimited \/ PageFailed

SpecStars == InitStars /\ [][NextStars]_vars

\* C28: a page of get_starred_repos that fails on every attempt, rate-limit
\* failures included, is retried at most max_retries times in a row: after
\* the failure that follows the last retry the function has stopped, with
\* the repositories of the pages before it.
C28_StopsAfterMaxRetries ==
  args.fn = "get_starred_repos" =>
    /\ outcome.retry_count <= args.max_retries + 1
    /\ outcome.retry_count = args.max_retries + 1 => outcome.done
    /\ \A k \in DOMAIN outcome.repos : outcome.repos[k] = k

\* ---------------------------------------------------------------------
\* update_stars.py: the processing loop of the main block and its final
\* summary. A repository fails when its conversion or processing raises.
\* ---------------------------------------------------------------------

\* sorted(starred_repos, ...)[:10]
latest_limit == 10

MaxTotalRepos == 11

InitSummary ==
  /\ args \in {[fn |-> "update_stars", total_repos |-> t, latest_repos |-> Min(t, latest_limit)] :
                 t \in 0..MaxTotalRepos}
  /\ outcome = [done |-> FALSE, i |-> 0, processed_count |-> 0, error_count |-> 0,
                repos_data |-> <<>>]
  /\ MergeIdle /\ StoreIdle /\ WorkersIdle /\ AiIdle

\* the body of the loop ran to its end for repository i
RepoProcessed ==
  /\ args.fn = "update_stars"
  /\ ~outcome.done
  /\ outcome.i < args.latest_repos
  /\ outcome' = [outcome EXCEPT !.i = @ + 1, !.processed_count = @ + 1,
                                !.repos_data = Append(@, "repo_dict")]
  /\ UNCHANGED <<args, mergeVars, storeVars, workerVars, aiVars>>

\* the body raised: the except block counts the error and keeps a stub
RepoFailed ==
  /\ args.fn = "update_stars"
  /\ ~outcome.done
  /\ outcome.i < args.latest_repos
  /\ outcome' = [outcome EXCEPT !.i = @ + 1, !.error_count = @ + 1,
                                !.repos_data = Append(@, "basic_dict")]
  /\ UNCHANGED <<args, mergeVars, storeVars, workerVars, aiVars>>

\* the statistics at the end of the run
ReportSummary ==
  /\ args.fn = "update_stars"
  /\ ~outcome.done
  /\ outcome.i = args.latest_repos
  /\ outcome' = [done |-> TRUE, i |-> outcome.i,
                 processed_count |-> outcome.processed_count,
                 error_count |-> outcome.error_count,
                 repos_data |-> outcome.repos_data,
                 selected |-> args.latest_repos,
                 succeeded |-> outcome.processed_count - outcome.error_count,
                 failed |-> outcome.error_count]
  /\ UNCHANGED <<args, mergeVars, storeVars, workerVars, aiVars>>

NextSummary == RepoProcessed \/ RepoFailed \/ ReportSummary

SpecSummary == InitSummary /\ [][NextSummary]_vars

\* C29: in the final summary the number of repositories reported as
\* processed with success plus the number reported as failed is the number
\* of repositories selected for processing, however many of them failed.
C29_SummaryAddsUp ==
  (args.fn = "update_stars" /\ outcome.done) =>
    outcome.succeeded + outcome.failed = outcome.selected

====
